---- MODULE Spec2Model ----
(***************************************************************************)
(* A model of the radio-studio broadcast engine: the live ingest handler   *)
(* and the source selector flag, the AutoDJ (Play / streamFile / control   *)
(* queue), the playlist sources, the Feed Queue, the distributor with its  *)
(* slow-listener eviction, the listener handlers, Studio.Close and the geo *)
(* resolver's IP hashing.                                                  *)
(*                                                                         *)
(* Every goroutine is a process with a program counter; one action is one  *)
(* atomic step of the code (one access to shared memory, a channel         *)
(* operation, or a critical section of a mutex).                           *)
(***************************************************************************)
EXTENDS Integers, Sequences, FiniteSets, TLC

----------------------------------------------------------------------------
(* Bounds of the model *)

\* number of /live requests
MaxLive == 2
\* number of chunks one live session delivers
MaxLiveReads == 1
\* number of chunks the AutoDJ reads from its files
MaxFileReads == 2
\* capacity of the Feed Queue (make(chan []byte, 4096) in the code)
FeedCap == 2

\* number of file names a directory or a backend answer draws from
MaxNames == 2
\* length of an audio file, in chunks
FileChunks == 2
\* capacity of the AutoDJ control queue (make(chan djCommand, 8) in the code)
CtrlCap == 2
\* last instant of the clock, in seconds
MaxTime == 7
\* backendPlaylist.ttl, in seconds
TTL == 5
\* last modification time of the audio directory
MaxMods == 2

\* number of /listen requests
MaxListeners == 2
\* capacity of a listener channel (make(chan []byte, 2048) in the code)
ChanCap == 1
\* the number of consecutive drops a listener is allowed (50 in the code)
DropLimit == 1
\* number of chunks a producer gets into the feed by pushing directly: enough to fill a listener
\* channel, exceed the drop limit, and go on after a successful send
MaxChunks == ChanCap + DropLimit + 2

\* length of an IP address in its text form, in bytes
MaxIpLen == 2
\* unused capacity of the resolver's salt slice, in bytes
MaxSpare == 2

\* number of studio ids the manager is asked for
MaxStudios == 2
\* number of RegisterStudio calls
MaxCalls == 3
\* number of successful RemoveStudio calls
MaxRemoves == 1
MaxRoutes == 1
MaxEvents == 3
GraceTicks == 2
Second == 1
DurMinute == 4
DurFive == 8
DurHour == 12
MaxTicks == 3
MaxCursorLen == 3
MaxStep == 4
MaxActive == 2
PutExtraTicks == 1

LiveHandlers == 1..MaxLive
Listeners == 1..MaxListeners
Names == 1..MaxNames
StudioIds == 1..MaxStudios
Calls == 1..MaxCalls

----------------------------------------------------------------------------
VARIABLES
    \* ---- live ingest / source selector (Studio fields)
    liveActive,     \* Studio.liveActive (atomic.Bool)
    liveIngest,     \* Studio.liveIngest: 0 = nil, else the handler whose reader is stored
    liveMeta,       \* Studio.liveMeta: 0 = nil, else the handler whose headers are stored
    liveMu,         \* Studio.liveMu: 0 = free, else the handler holding it
    lpc,            \* position of each HandleLiveIngest call
    lreq,           \* the request of each call: how its connection takes a hijack
    lresp,          \* status written to the client: 0 = none yet
    lauth,          \* the response carries WWW-Authenticate: Basic realm="source"
    lin,            \* the request as it was received: [m, a, cl]
    clients,        \* the requests the source clients send
    lgot,           \* chunks read by each call (receivedAudio is lgot > 0)
    lclosed,        \* whether the reader of the call has been closed
    \* ---- Feed Queue
    feed,           \* Studio.feed: the buffered chunks, head first
    feedClosed,     \* close(s.feed) has happened
    produced,       \* number of chunks enqueued so far (the id of a chunk is its rank)
    reads,          \* number of chunks read by the AutoDJ so far
    heap,           \* the content of each read buffer of the producers (0 = zeroed)
    \* ---- playlist source and its environment
    plKind,         \* "fs" (playlistState) or "http" (backendPlaylist)
    playlist,       \* [tracks, idx, last]: the snapshot, the cursor, lastModTime / lastFetch
    dir,            \* the audio directory: name -> "none" | "mp3" | "other" | "dir"
    dirMod,         \* modification time of the directory
    now,            \* the clock
    \* ---- AutoDJ
    djpc,           \* position of the Play goroutine
    ctxDone,        \* the context of Play is cancelled
    ctrl,           \* autoDJ.ctrl: the queued commands
    current,        \* autoDJ.current.File (0 = "")
    nextT,          \* autoDJ.next.File
    startedAt,      \* autoDJ.startedAt
    activeFile,     \* autoDJ.activeFile (0 = "")
    path,           \* the path argument of the running streamFile
    filePos,        \* chunks of the file read so far
    inFallback,     \* streamFile was called by tryFallback
    fallback,       \* the configured fallback file: "none" | "missing" | "present"
    lastEnd,        \* how the last streamFile ended: [kind, at]
    playEvents,     \* history: the play events sent since, and with, the last
                    \* track_started
    lastPos,        \* history: the position of the playlist track started last,
                    \* -1 when none was or when the snapshot has changed since
    \* ---- distributor and listener handlers
    streamListeners,  \* Studio.streamListeners: the distributor's listener set
    listenersStore,   \* Studio.listenersStore: the listener registry
    ch,               \* streamListener.ch of each listener: the buffered chunks
    chClosed,         \* the channel of the listener has been closed
    droppedInARow,    \* streamListener.droppedInARow
    hpc,              \* position of each HandleListen call
    dpc,              \* position of the distribute goroutine
    ddata,            \* the chunk distribute received last
    dleft,            \* the listeners the range loop has not produced yet
    dcur,             \* the listener the range loop is evicting (0 = none)
    cpc,              \* position of the Studio.Close call
    \* ---- history of the fan-out
    joinedAt,         \* id of the last chunk dequeued when the listener was added to the set
    got,              \* the chunks the handler of the listener received and wrote, in order
    everDropped,      \* a send to the listener has failed
    evictedAt,        \* id of the chunk at which the listener was evicted (0 = never)
    disconnectedAt,   \* Listener.DisconnectedAt: who stored it, in order (<<>> = nil)
    joinedLive,       \* the live session on when the listener was added to the set (0 = none)
    \* ---- geo resolver and the listener records
    geoOk,            \* Resolver.ok: the GeoIP database is open
    saltSpare,        \* cap(r.salt) - len(r.salt)
    saltBuf,          \* the bytes of r.salt's array beyond len(r.salt)
    remoteIP,         \* Listener.RemoteIP as text (<<>> = nil)
    origIP,           \* the RemoteIP the listener was created with
    ipHash,           \* Listener.IPHash (<<>> = "")
    country,          \* Listener.Country (0 = "")
    enriched,         \* Listener.Enriched
    gpc,              \* position of each Enrich goroutine
    gview,            \* the slice append returned to hashAndNull: [shared, bytes]
    \* ---- Manager
    mgrMu,            \* Manager.mu: 0 = free, else its holder (a call, or Shutdown)
    studios,          \* Manager.studios: id -> the Studio registered (0 = no entry)
    objs,             \* the Studio objects made so far: [id, tasks], tasks = its goroutines
    autoDJFactory,    \* Manager.autoDJFactory is not nil
    rpc,              \* position of each RegisterStudio call
    rarg,             \* the studioID of the call
    rret,             \* the Studio the call returned (0 = none yet)
    removed,          \* the ids RemoveStudio has deleted, in order
    spc,              \* position of the Shutdown call
    closers,          \* the Studios whose goroutine of Shutdown has not finished
    wg,               \* the WaitGroup counter of Shutdown
    \* ---- history of the /now endpoint
    nowResp,          \* the last answer of HandleNowPlaying: [cur, elapsed]
    byteSent,         \* Listener.ByteSent
    \* ---- calls of advance() and nextTrack() on a snapshot
    walk,             \* history: the cursor when the calls began and after each advance()
    peeked,           \* what the last nextTrack() returned, and the cursor it saw
    \* ---- the GETs of the HTTP-backed playlist
    getTimes,         \* history: the times of the last two GETs that the calls of
                      \* the playlist interface issued since the last forceReload
    \* ---- the analytics task of StartAnalytics
    apc,              \* "wait" (in the select), "returned", "panicked"
    stopClosed,       \* the stop channel has been closed
    bk,               \* bucketState.data: the buckets held
    alast,            \* last: the time of the previous tick
    batch,            \* the buckets of the batch built last
    posted,           \* how the POST of that batch went: "none", "ok", "failed"
    drainedKeys,      \* history: the (interval, start) of every bucket put in a batch
    aticks,           \* the number of ticks so far
    \* ---- the read loop of a live session with its clock
    loop,             \* per session: [pc, put, received, elapsed, last]
    \* ---- Studio.listenersMu
    rlocks,           \* the read locks held, by holder: "dist" | "status" | "collect"
    \* ---- the response of each /listen request
    flushable,        \* the ResponseWriter of the request is an http.Flusher
    hstatus,          \* the status line the request was answered with (0 = none yet)
    \* ---- history of the router
    route             \* the last request RouteStudioRequest served: [n, path, status, obj, handler]

liveVars == <<liveActive, liveIngest, liveMeta, liveMu, lpc, lreq, lresp, lgot, lclosed,
             lauth, lin, clients>>
feedVars == <<feed, feedClosed, produced, reads>>
bufVars == <<heap>>
plVars == <<plKind, playlist, dir, dirMod, now>>
djVars == <<djpc, ctxDone, ctrl, current, nextT, startedAt, activeFile, path, filePos,
            inFallback, fallback, lastEnd, lastPos, playEvents>>
closeVars == <<cpc>>
geoVars == <<geoOk, saltSpare, saltBuf, remoteIP, origIP, ipHash, country, enriched, gpc, gview>>
fanVars == <<streamListeners, listenersStore, ch, chClosed, droppedInARow, hpc, dpc, ddata,
             dleft, dcur, joinedAt, got, everDropped, evictedAt, disconnectedAt,
             joinedLive>>

nowVars == <<nowResp>>
routeVars == <<route>>
respVars == <<flushable, hstatus>>
lockVars == <<rlocks>>
byteVars == <<byteSent>>
graceVars == <<loop>>
cursorVars == <<walk, peeked>>
fetchVars == <<getTimes>>
analyticsVars == <<apc, stopClosed, bk, alast, batch, posted, drainedKeys, aticks>>
mgrVars == <<mgrMu, studios, objs, autoDJFactory, rpc, rarg, rret, removed, spc, closers, wg>>

\* what the steps of one component leave alone
restOfLive == <<cursorVars, fetchVars, analyticsVars, graceVars, byteVars, mgrVars, nowVars, routeVars, respVars, lockVars, plVars, djVars, closeVars, fanVars, geoVars>>
restOfPlaylist == <<cursorVars, analyticsVars, graceVars, byteVars, mgrVars, nowVars, routeVars, respVars, lockVars, bufVars, liveVars, feedVars, djVars, closeVars, fanVars, geoVars>>
restOfDj == <<cursorVars, fetchVars, analyticsVars, graceVars, byteVars, mgrVars, nowVars, routeVars, respVars, lockVars, closeVars, fanVars, geoVars>>
restOfPush == <<cursorVars, fetchVars, analyticsVars, graceVars, byteVars, mgrVars, nowVars, routeVars, respVars, lockVars, bufVars, liveVars, plVars, djVars, closeVars, fanVars, geoVars>>
restOfDist == <<cursorVars, fetchVars, analyticsVars, graceVars, mgrVars, nowVars, routeVars, respVars, bufVars, liveVars, plVars, djVars, closeVars, geoVars>>
restOfHandler == <<cursorVars, fetchVars, analyticsVars, graceVars, byteVars, mgrVars, nowVars, routeVars, lockVars, bufVars, liveVars, feedVars, plVars, djVars, closeVars, geoVars>>
restOfListen == <<restOfHandler, respVars>>
restOfClose == <<cursorVars, fetchVars, analyticsVars, graceVars, byteVars, mgrVars, nowVars, routeVars, respVars, lockVars, bufVars, liveVars, plVars, fanVars, geoVars, djpc, ctrl, current, nextT, startedAt,
                 activeFile, path, filePos, inFallback, fallback, lastEnd, lastPos, playEvents>>
restOfGeo == <<cursorVars, fetchVars, analyticsVars, graceVars, byteVars, mgrVars, nowVars, routeVars, respVars, lockVars, bufVars, liveVars, feedVars, plVars, djVars, closeVars, fanVars>>
restOfMgr == <<cursorVars, fetchVars, analyticsVars, graceVars, byteVars, nowVars, routeVars, respVars, lockVars, liveVars, feedVars, bufVars, plVars, djVars, closeVars, fanVars, geoVars>>
restOfNow == <<cursorVars, fetchVars, analyticsVars, graceVars, byteVars, mgrVars, routeVars, respVars, lockVars, liveVars, feedVars, bufVars, plVars, djVars, closeVars, fanVars, geoVars>>
restOfRoute == <<cursorVars, fetchVars, analyticsVars, graceVars, byteVars, nowVars, respVars, lockVars, liveVars, feedVars, bufVars, plVars, djVars, closeVars, fanVars, geoVars>>
restOfLock == <<cursorVars, fetchVars, analyticsVars, graceVars, byteVars, routeVars, nowVars, respVars, liveVars, feedVars, bufVars, plVars, djVars, closeVars, fanVars, geoVars, mgrVars>>
restOfGrace == <<cursorVars, fetchVars, analyticsVars, lockVars, byteVars, routeVars, nowVars, respVars, liveVars, feedVars, bufVars, plVars, djVars, closeVars, fanVars, geoVars, mgrVars>>
restOfAnalytics == <<cursorVars, fetchVars, graceVars, lockVars, byteVars, routeVars, nowVars, respVars, liveVars, feedVars, bufVars, plVars, djVars, closeVars, fanVars, geoVars, mgrVars>>
restOfCursor == <<analyticsVars, graceVars, byteVars, mgrVars, nowVars, routeVars, respVars, lockVars, bufVars, liveVars, feedVars, djVars, closeVars, fanVars, geoVars>>

----------------------------------------------------------------------------
(* Feed Queue *)

\* The arrays that hold audio bytes. A read buffer is the "buf" of one
\* HandleLiveIngest call or of one streamFile call (named by the number of
\* chunks the AutoDJ had read when the call began); the array made for a chunk
\* belongs to that chunk alone.
LiveBuf(h) == [who |-> "live", n |-> h]
AutoBuf(base) == [who |-> "auto", n |-> base]
Fresh == [who |-> "fresh", n |-> 0]
BufIds == {LiveBuf(h) : h \in LiveHandlers} \cup {AutoBuf(b) : b \in 0..MaxFileReads}

\* a chunk that is the read buffer itself (a variant of Copied, to show that
\* ChunksAreImmutable depends on the copy)
Aliased(buf) == buf

\* chunk := make([]byte, n); copy(chunk, buf[:n]): the chunk is a new array
Copied(buf) == Fresh

\* A chunk: its producer, its rank in the feed, the array that holds its
\* bytes, the bytes it held when it was enqueued, and whether liveActive was
\* true when it was enqueued
Chunk(src, id, arr, val) ==
    [src |-> src, id |-> id, arr |-> arr, val |-> val, live |-> liveActive]

\* the bytes a chunk holds now
Content(c) == IF c.arr = Fresh THEN c.val ELSE heap[c.arr]

\* a send that enqueues into a full queue (a variant of Push, to show that
\* FeedPushNeverBlocks depends on the drop)
PushOverCap(q, c) == Append(q, c)

\* Studio.push on an open feed: non-blocking send, drop when full
Push(q, c) == IF Len(q) < FeedCap THEN Append(q, c) ELSE q

----------------------------------------------------------------------------
(* Live ingest handler: Studio.HandleLiveIngest *)

Methods == {"PUT", "POST", "SOURCE", "GET"}
AuthHeaders == {"missing", "notbasic", "badbase64", "nocolon", "baduser", "badpass", "valid"}

\* a method check that lets every method in (a variant of MethodAllowed, to
\* show that RejectedLiveLeavesStudioAlone depends on the check)
AnyMethod(m) == TRUE

MethodAllowed(m) == m \in {"PUT", "POST", "SOURCE"}

\* checkIcecastAuth: TRUE iff it returns nil
checkIcecastAuth(a) == a = "valid"

\* the hijack decision: SOURCE always, PUT/POST when ContentLength <= 0
WantsHijack(m, cl) == m = "SOURCE" \/ (m \in {"PUT", "POST"} /\ cl <= 0)

NoReq == "no"

\* a request: its method, its Authorization header, its Content-Length
Request(m, a, cl) == [m |-> m, a |-> a, cl |-> cl]
Requests == {Request(m, a, cl) : m \in Methods, a \in AuthHeaders, cl \in {0, 1}}
NoIn == Request("", "", 0)

\* the PUT requests with the right credentials
PutRequests == {Request("PUT", "valid", cl) : cl \in {0, 1}}

\* A request arrives; the method check and the auth check read no shared state.
LiveArrive(h) ==
    /\ lpc[h] = "idle"
    /\ \E req \in clients, hj \in {"ok", "unsupported", "fail"} :
         /\ lin' = [lin EXCEPT ![h] = req]
         /\ IF ~MethodAllowed(req.m)
              THEN /\ lresp' = [lresp EXCEPT ![h] = 405]
                   /\ lpc' = [lpc EXCEPT ![h] = "done"]
                   /\ UNCHANGED <<lreq, lauth>>
              ELSE IF ~checkIcecastAuth(req.a)
                THEN /\ lresp' = [lresp EXCEPT ![h] = 401]
                     /\ lauth' = [lauth EXCEPT ![h] = TRUE]
                     /\ lpc' = [lpc EXCEPT ![h] = "done"]
                     /\ UNCHANGED lreq
                ELSE /\ lpc' = [lpc EXCEPT ![h] = "check"]
                     /\ lreq' = [lreq EXCEPT ![h] =
                                   IF WantsHijack(req.m, req.cl) THEN hj ELSE "no"]
                     /\ UNCHANGED <<lresp, lauth>>
    /\ UNCHANGED <<liveActive, liveIngest, liveMeta, liveMu, lgot, lclosed, clients>>
    /\ UNCHANGED <<feedVars, bufVars>>
    /\ UNCHANGED restOfLive

\* "Reject if one already active": s.liveActive.Load()
LiveCheckActive(h) ==
    /\ lpc[h] = "check"
    /\ IF liveActive
         THEN /\ lresp' = [lresp EXCEPT ![h] = 409]
              /\ lpc' = [lpc EXCEPT ![h] = "done"]
         ELSE /\ lpc' = [lpc EXCEPT ![h] = "meta"]
              /\ UNCHANGED lresp
    /\ UNCHANGED <<liveActive, liveIngest, liveMeta, liveMu, lreq, lgot, lclosed>>
    /\ UNCHANGED <<lauth, lin, clients>>
    /\ UNCHANGED <<feedVars, bufVars>>
    /\ UNCHANGED restOfLive

\* s.setLiveMeta(extractLiveMeta(r))
LiveSetMeta(h) ==
    /\ lpc[h] = "meta"
    /\ liveMeta' = h
    /\ lpc' = [lpc EXCEPT ![h] = "shake"]
    /\ UNCHANGED <<liveActive, liveIngest, liveMu, lreq, lresp, lgot, lclosed>>
    /\ UNCHANGED <<lauth, lin, clients>>
    /\ UNCHANGED <<feedVars, bufVars>>
    /\ UNCHANGED restOfLive

\* the handshake: hijack and raw "HTTP/1.0 200 OK", or WriteHeader(200)
LiveHandshake(h) ==
    /\ lpc[h] = "shake"
    /\ \/ /\ lreq[h] = "unsupported"
          /\ lresp' = [lresp EXCEPT ![h] = 500]
          /\ lpc' = [lpc EXCEPT ![h] = "done"]
       \/ /\ lreq[h] = "fail"
          /\ lpc' = [lpc EXCEPT ![h] = "done"]
          /\ UNCHANGED lresp
       \/ /\ lreq[h] \in {"ok", "no"}
          /\ lresp' = [lresp EXCEPT ![h] = 200]
          /\ lpc' = [lpc EXCEPT ![h] = "mark"]
    /\ UNCHANGED <<liveActive, liveIngest, liveMeta, liveMu, lreq, lgot, lclosed>>
    /\ UNCHANGED <<lauth, lin, clients>>
    /\ UNCHANGED <<feedVars, bufVars>>
    /\ UNCHANGED restOfLive

\* "Mark active": liveMu.Lock(); liveIngest = reader; liveActive.Store(true); Unlock()
LiveMarkActive(h) ==
    /\ lpc[h] = "mark"
    /\ liveMu = 0
    /\ liveIngest' = h
    /\ liveActive' = TRUE
    /\ lpc' = [lpc EXCEPT ![h] = "read"]
    /\ UNCHANGED <<liveMeta, liveMu, lreq, lresp, lgot, lclosed>>
    /\ UNCHANGED <<lauth, lin, clients>>
    /\ UNCHANGED <<feedVars, bufVars>>
    /\ UNCHANGED restOfLive

\* a loop that retries every early EOF, whatever the time (a variant of
\* Retries, to show that GraceEndsTheWait depends on the grace window)
RetriesForever(receivedAudio, n, err, inGrace) ==
    err = "EOF" /\ n = 0 /\ ~receivedAudio

\* the condition of the retry: an EOF (io.EOF, io.ErrUnexpectedEOF) with
\* n == 0, no audio received so far, and graceElapsed < maxGrace
Retries(receivedAudio, n, err, inGrace) ==
    err = "EOF" /\ n = 0 /\ ~receivedAudio /\ inGrace

\* whether the read loop retries after this read (the early-EOF grace)
LiveRetries(h, n, err, inGrace) == Retries(lgot[h] > 0, n, err, inGrace)

\* One iteration of the read loop: reader.Read(buf), push of the copy, and the
\* decision to continue or break. inGrace is time.Since(graceStart) < maxGrace.
LiveRead(h) ==
    /\ lpc[h] = "read"
    /\ \E n \in {0, 1}, err \in {"nil", "EOF", "err"}, inGrace \in BOOLEAN :
         /\ ~(n = 0 /\ err = "nil")
         /\ lclosed[h] => (n = 0 /\ err = "err")
         /\ n > 0 => lgot[h] < MaxLiveReads
         /\ IF n > 0 /\ feedClosed
              THEN \* send on a closed channel panics; net/http recovers the handler
                   /\ lpc' = [lpc EXCEPT ![h] = "panicked"]
                   /\ heap' = [heap EXCEPT ![LiveBuf(h)] = lgot[h] + 1]
                   /\ UNCHANGED <<feed, produced, lgot>>
              ELSE /\ IF n > 0
                        THEN /\ heap' = [heap EXCEPT ![LiveBuf(h)] = lgot[h] + 1]
                             /\ feed' = Push(feed, Chunk("live", produced + 1,
                                                         Copied(LiveBuf(h)), lgot[h] + 1))
                             /\ produced' = IF Len(feed) < FeedCap THEN produced + 1 ELSE produced
                             /\ lgot' = [lgot EXCEPT ![h] = @ + n]
                        ELSE UNCHANGED <<feed, produced, lgot, heap>>
                   /\ IF err = "nil" \/ LiveRetries(h, n, err, inGrace)
                        THEN UNCHANGED lpc
                        ELSE lpc' = [lpc EXCEPT ![h] = "close"]
    /\ UNCHANGED <<liveActive, liveIngest, liveMeta, liveMu, lreq, lresp, lclosed, feedClosed, reads>>
    /\ UNCHANGED <<lauth, lin, clients>>
    /\ UNCHANGED restOfLive

\* ---- the analytics task. The unit of time is the second; the three
\* interval kinds keep their order, with the minute scaled to DurMinute units.
Intervals == {"MINUTE", "FIVE_MIN", "HOUR"}
Dur(key) == CASE key = "MINUTE" -> DurMinute
              [] key = "FIVE_MIN" -> DurFive
              [] key = "HOUR" -> DurHour

\* trunc(t, d): t rounded down to a multiple of d
Trunc(t, d) == t - (t % d)

BucketKey(key, start) == [kind |-> key, start |-> start]
KeyOf(b) == BucketKey(b.kind, b.start)
NewBucket(key, start) ==
    [kind |-> key, start |-> start, peak |-> 0, minutes |-> 0, countries |-> 0]

\* bucketState.addSample: for each interval the bucket that starts at
\* trunc(now, dur) is found or made; its peak is raised to active and the
\* country counts of the sample (here: of one country) are added
Sampled(b, active, c) ==
    [b EXCEPT !.peak = IF active > @ THEN active ELSE @, !.countries = @ + c]
AddSample(B, t, active, c) ==
    LET cur == {BucketKey(k, Trunc(t, Dur(k))) : k \in Intervals}
        held == {KeyOf(b) : b \in B}
    IN {IF KeyOf(b) \in cur THEN Sampled(b, active, c) ELSE b : b \in B}
         \cup {Sampled(NewBucket(k.kind, k.start), active, c) : k \in cur \ held}

\* int(delta.Minutes() + 0.5)
Minutes(delta) == (2 * delta + DurMinute) \div (2 * DurMinute)

\* bucketState.accrueListenerMinutes
AccrueListenerMinutes(B, delta, active) ==
    IF active <= 0 \/ delta <= 0 THEN B
    ELSE IF Minutes(delta) <= 0 THEN B
    ELSE {[b EXCEPT !.minutes = @ + Minutes(delta) * active] : b \in B}

\* bucketState.drainReady: the buckets it returns, and the buckets it leaves
DrainReady(B, cutoff) == {b \in B : b.start + Dur(b.kind) <= cutoff}

\* a drain that leaves the returned buckets in the state (a variant of
\* Remaining, to show that DrainedOnceOnly depends on the delete)
RemainingAll(B, cutoff) == B

Remaining(B, cutoff) == B \ DrainReady(B, cutoff)

\* One pass of the task's loop after a tick: collectSessions gives the number
\* of active listeners and the country counts, the sample is added, the
\* listener-minutes since the last tick are accrued, the ready buckets are
\* drained into the batch, and the batch is POSTed, the result being dropped.
\* With the stop channel closed too the select may still take the tick.
AnalyticsTick ==
    /\ apc = "wait"
    /\ aticks < MaxTicks
    /\ \E d \in 1..MaxStep, active \in 0..MaxActive, c \in 0..1, ok \in BOOLEAN :
         LET t == alast + d
             B1 == AddSample(bk, t, active, c)
             B2 == AccrueListenerMinutes(B1, t - alast, active)
             cutoff == t - Second
         IN /\ batch' = DrainReady(B2, cutoff)
            /\ bk' = Remaining(B2, cutoff)
            /\ drainedKeys' = drainedKeys \cup {KeyOf(b) : b \in DrainReady(B2, cutoff)}
            /\ alast' = t
            /\ posted' = IF ok THEN "ok" ELSE "failed"
    /\ aticks' = aticks + 1
    /\ UNCHANGED <<apc, stopClosed>>
    /\ UNCHANGED restOfAnalytics

\* the caller of StartAnalytics closes the channel it was given
StopAnalytics ==
    /\ ~stopClosed
    /\ apc = "wait"
    /\ stopClosed' = TRUE
    /\ UNCHANGED <<apc, bk, alast, batch, posted, drainedKeys, aticks>>
    /\ UNCHANGED restOfAnalytics

\* the select takes <-stop: return; the deferred tick.Stop() and close(stop)
\* run, and closing the channel that is closed already panics
AnalyticsStopped ==
    /\ apc = "wait"
    /\ stopClosed
    /\ apc' = "panicked"
    /\ UNCHANGED <<stopClosed, bk, alast, batch, posted, drainedKeys, aticks>>
    /\ UNCHANGED restOfAnalytics

AnalyticsNext == AnalyticsTick \/ StopAnalytics \/ AnalyticsStopped

\* ---- the read loop with its clock. The unit of time is the sleep between
\* two retries (liveEarlyEOFSleep); the grace window is GraceTicks units for
\* SOURCE and GraceTicks + PutExtraTicks for PUT and POST.
MaxGrace(isPutLike) == IF isPutLike THEN GraceTicks + PutExtraTicks ELSE GraceTicks

\* the clock is followed up to one unit past the longest window
ClockCap == GraceTicks + PutExtraTicks + 1
Later(t, d) == IF t + d > ClockCap THEN ClockCap ELSE t + d

\* what a read gave and what the loop did with it
Outcome(n, err, had, inGrace, cont) ==
    [n |-> n, err |-> err, had |-> had, inGrace |-> inGrace, cont |-> cont]
NoOutcome == Outcome(0, "nil", FALSE, TRUE, TRUE)

\* the loop as it is entered: graceStart = now, receivedAudio = false
LoopStart(isPutLike) ==
    [pc |-> "read", put |-> isPutLike, received |-> FALSE, elapsed |-> 0, last |-> NoOutcome]

\* One iteration of the loop: reader.Read(buf) returns n and err after d units
\* of time; receivedAudio is set when n > 0; on an error the loop sleeps one
\* unit and goes on when Retries holds, and leaves for the teardown otherwise.
GraceRead(h) ==
    /\ loop[h].pc = "read"
    /\ \E n \in {0, 1}, err \in {"nil", "EOF", "err"}, d \in {0, 1} :
         /\ ~(n = 0 /\ err = "nil")
         /\ LET t == Later(loop[h].elapsed, d)
                had == loop[h].received
                inGrace == t < MaxGrace(loop[h].put)
                cont == err = "nil" \/ Retries(had, n, err, inGrace)
            IN loop' = [loop EXCEPT ![h] =
                          [pc |-> IF cont THEN "read" ELSE "teardown",
                           put |-> loop[h].put,
                           received |-> had \/ n > 0,
                           elapsed |-> IF err # "nil" /\ cont THEN Later(t, 1) ELSE t,
                           last |-> Outcome(n, err, had, inGrace, cont)]]
    /\ UNCHANGED restOfGrace

\* Teardown, first part: liveMu.Lock(); close and forget the stored reader;
\* liveActive.Store(false)
LiveTeardown(h) ==
    /\ lpc[h] = "close"
    /\ liveMu = 0
    /\ liveMu' = h
    /\ lclosed' = [x \in LiveHandlers |->
                     IF x = liveIngest \/ (x = h /\ lreq[h] = "ok") THEN TRUE ELSE lclosed[x]]
    /\ liveIngest' = 0
    /\ liveActive' = FALSE
    /\ lpc' = [lpc EXCEPT ![h] = "clearmeta"]
    /\ UNCHANGED <<liveMeta, lreq, lresp, lgot>>
    /\ UNCHANGED <<lauth, lin, clients>>
    /\ UNCHANGED <<feedVars, bufVars>>
    /\ UNCHANGED restOfLive

\* Teardown, second part: s.clearLiveMeta(); liveMu.Unlock()
LiveClearMeta(h) ==
    /\ lpc[h] = "clearmeta"
    /\ liveMeta' = 0
    /\ liveMu' = 0
    /\ lpc' = [lpc EXCEPT ![h] = "done"]
    /\ UNCHANGED <<liveActive, liveIngest, lreq, lresp, lgot, lclosed>>
    /\ UNCHANGED <<lauth, lin, clients>>
    /\ UNCHANGED <<feedVars, bufVars>>
    /\ UNCHANGED restOfLive

\* the steps of one HandleLiveIngest call
LiveSteps(h) ==
    \/ LiveArrive(h)
    \/ LiveCheckActive(h)
    \/ LiveSetMeta(h)
    \/ LiveHandshake(h)
    \/ LiveMarkActive(h)
    \/ LiveRead(h)
    \/ LiveTeardown(h)
    \/ LiveClearMeta(h)

LiveNext == \E h \in LiveHandlers : LiveSteps(h)

----------------------------------------------------------------------------
(* Playlist sources: playlistState (filesystem) and backendPlaylist (HTTP) *)

NoTime == -1

\* a clamp that keeps a cursor beyond the end of the new snapshot (a variant
\* of ClampIdx, to show that CursorInRange depends on the clamp)
ClampIdxKeeping(i, n) == IF n = 0 THEN -1 ELSE i

\* the clamp of the cursor after the snapshot was replaced (reload, fetch)
ClampIdx(i, n) == IF n = 0 THEN -1 ELSE IF i >= n THEN 0 ELSE i

\* a cursor that stays on the last track instead of wrapping round (a
\* variant of AdvanceIdx, to show that RoundRobinOrder depends on the modulus)
AdvanceIdxNoWrap(i, n) == IF n = 0 THEN -1 ELSE IF i < 0 THEN 0 ELSE IF i + 1 < n THEN i + 1 ELSE i

\* the cursor after advance()
AdvanceIdx(i, n) == IF n = 0 THEN -1 ELSE IF i < 0 THEN 0 ELSE (i + 1) % n

\* sort.Slice(list, File <): insertion of x into a sorted list, and the sort
RECURSIVE InsertSorted(_, _)
InsertSorted(x, list) ==
    IF list = <<>> THEN <<x>>
    ELSE IF x < Head(list) THEN <<x>> \o list
    ELSE <<Head(list)>> \o InsertSorted(x, Tail(list))

RECURSIVE SortByFile(_)
SortByFile(list) ==
    IF list = <<>> THEN <<>> ELSE InsertSorted(Head(list), SortByFile(Tail(list)))

\* os.ReadDir: the entries of the directory, sorted by file name
RECURSIVE ReadDirFrom(_, _)
ReadDirFrom(d, n) ==
    IF n > MaxNames THEN <<>>
    ELSE IF d[n] = "none" THEN ReadDirFrom(d, n + 1)
    ELSE <<[name |-> n, kind |-> d[n]]>> \o ReadDirFrom(d, n + 1)

ReadDir(d) == ReadDirFrom(d, 1)

\* The loop of playlistState.reload over the entries: a directory entry is
\* skipped; for every other entry the list read so far is sorted and stored
\* as the snapshot, lastModTime is set and the cursor is clamped.
RECURSIVE ReloadLoop(_, _, _, _)
ReloadLoop(entries, list, p, mod) ==
    IF entries = <<>> THEN p
    ELSE LET e == Head(entries) IN
         IF e.kind = "dir" THEN ReloadLoop(Tail(entries), list, p, mod)
         ELSE LET l2 == SortByFile(IF e.kind = "mp3" THEN Append(list, e.name) ELSE list)
                  p2 == [tracks |-> l2, idx |-> ClampIdx(p.idx, Len(l2)), last |-> mod]
              IN ReloadLoop(Tail(entries), l2, p2, mod)

\* playlistState.reload(mod); readErr: os.ReadDir failed
Reload(p, d, mod, readErr) ==
    IF readErr THEN p ELSE ReloadLoop(ReadDir(d), <<>>, p, mod)

\* playlistState.ensure; statErr: os.Stat failed
EnsureFs(p, d, mod, statErr, readErr) ==
    IF statErr THEN p
    ELSE IF ~(Len(p.tracks) = 0 \/ mod > p.last) THEN p
    ELSE Reload(p, d, mod, readErr)

\* playlistState.forceReload
ForceReloadFs(p, d, mod, statErr, readErr) ==
    IF statErr THEN p ELSE Reload(p, d, mod, readErr)

\* the track lists a body can hold
TrackLists == UNION {[1..n -> Names] : n \in 0..MaxNames}

\* What a GET of the playlist endpoint can give: a network error, or a
\* response with a status and a body, which is malformed JSON or a list
Answers ==
    {[err |-> TRUE, status |-> 0, bad |-> FALSE, list |-> <<>>]}
      \cup {[err |-> FALSE, status |-> st, bad |-> TRUE, list |-> <<>>] : st \in {200, 204, 404, 500}}
      \cup {[err |-> FALSE, status |-> st, bad |-> FALSE, list |-> l] :
               st \in {200, 204, 404, 500}, l \in TrackLists}

\* a fetch that empties the snapshot when the answer cannot be used (a
\* variant of Fetch, to show that FailedFetchKeepsSnapshot depends on the
\* early returns)
FetchClearing(p, ans, t) ==
    IF ans.err \/ ans.status # 200 \/ ans.bad
      THEN [tracks |-> <<>>, idx |-> -1, last |-> t]
      ELSE [tracks |-> ans.list, idx |-> ClampIdx(p.idx, Len(ans.list)), last |-> t]

\* backendPlaylist.fetch
Fetch(p, ans, t) ==
    IF ans.err THEN p
    ELSE IF ans.status # 200 THEN p
    ELSE IF ans.bad THEN p
    ELSE [tracks |-> ans.list, idx |-> ClampIdx(p.idx, Len(ans.list)), last |-> t]

\* backendPlaylist.ensure
IsStale(p, t) == Len(p.tracks) = 0 \/ p.last = NoTime \/ t - p.last > TTL

EnsureHttp(p, ans, t) == IF IsStale(p, t) THEN Fetch(p, ans, t) ELSE p

\* backendPlaylist.forceReload
ForceReloadHttp(p) == [p EXCEPT !.last = NoTime]

\* current(), nextTrack(), advance() are the same code in both sources;
\* current() and nextTrack() only read the snapshot and the cursor
CurrentOk(p) == ~(p.idx < 0 \/ p.idx >= Len(p.tracks))
CurrentTrack(p) == IF CurrentOk(p) THEN p.tracks[p.idx + 1] ELSE 0

NextOk(p) == Len(p.tracks) # 0
NextTrack(p) ==
    IF Len(p.tracks) = 0 THEN 0
    ELSE IF p.idx < 0 THEN p.tracks[1]
    ELSE p.tracks[((p.idx + 1) % Len(p.tracks)) + 1]

Advance(p) == [p EXCEPT !.idx = AdvanceIdx(p.idx, Len(p.tracks))]

\* the playlists ensure() can leave behind, over every outcome of its I/O
EnsureResults(p) ==
    IF plKind = "fs"
      THEN {EnsureFs(p, dir, dirMod, se, re) : se \in BOOLEAN, re \in BOOLEAN}
      ELSE {EnsureHttp(p, ans, now) : ans \in Answers}

ForceReloadResults(p) ==
    IF plKind = "fs"
      THEN {ForceReloadFs(p, dir, dirMod, se, re) : se \in BOOLEAN, re \in BOOLEAN}
      ELSE {ForceReloadHttp(p)}

\* ---- advance() and nextTrack() called on a snapshot that stays as it is
NoPeek == [at |-> -2, track |-> 0]

CursorAdvance ==
    /\ Len(walk) <= Len(playlist.tracks)
    /\ playlist' = Advance(playlist)
    /\ walk' = Append(walk, playlist'.idx)
    /\ UNCHANGED <<peeked, plKind, dir, dirMod, now, getTimes>>
    /\ UNCHANGED restOfCursor

CursorNextTrack ==
    /\ peeked' = [at |-> playlist.idx, track |-> NextTrack(playlist)]
    /\ UNCHANGED <<walk, plVars, getTimes>>
    /\ UNCHANGED restOfCursor

\* the history of the GETs after one more at time t
Got(q, t) == IF Len(q) < 2 THEN Append(q, t) ELSE <<q[2], t>>

\* backendPlaylist.ensure calls fetch, which issues the GET, when it finds the
\* snapshot stale
EnsureGets == plKind = "http" /\ IsStale(playlist, now)

\* ---- the calls of the PlaylistSource interface that change its state
PlEnsure ==
    /\ \E q \in EnsureResults(playlist) : playlist' = q
    /\ getTimes' = IF EnsureGets THEN Got(getTimes, now) ELSE getTimes
    /\ UNCHANGED <<plKind, dir, dirMod, now>>
    /\ UNCHANGED restOfPlaylist

PlAdvance ==
    /\ playlist' = Advance(playlist)
    /\ UNCHANGED getTimes
    /\ UNCHANGED <<plKind, dir, dirMod, now>>
    /\ UNCHANGED restOfPlaylist

PlForceReload ==
    /\ \E q \in ForceReloadResults(playlist) : playlist' = q
    /\ getTimes' = IF plKind = "http" THEN <<>> ELSE getTimes
    /\ UNCHANGED <<plKind, dir, dirMod, now>>
    /\ UNCHANGED restOfPlaylist

\* ---- the environment: the directory changes (its modification time moves on,
\* or stays when the change falls within the granularity of the time stamp);
\* time passes for the source that reads the clock
DirChange ==
    /\ plKind = "fs"
    /\ \E n \in Names, k \in {"none", "mp3", "other", "dir"} :
         /\ dir[n] # k
         /\ dir' = [dir EXCEPT ![n] = k]
    /\ \/ UNCHANGED dirMod
       \/ /\ dirMod < MaxMods
          /\ dirMod' = dirMod + 1
    /\ UNCHANGED <<plKind, playlist, now, getTimes>>
    /\ UNCHANGED restOfPlaylist

Tick ==
    /\ plKind = "http"
    /\ now < MaxTime
    /\ now' = now + 1
    /\ UNCHANGED <<plKind, playlist, dir, dirMod, getTimes>>
    /\ UNCHANGED restOfPlaylist

PlNext ==
    \/ PlEnsure
    \/ PlAdvance
    \/ PlForceReload
    \/ DirChange
    \/ Tick

----------------------------------------------------------------------------
(* AutoDJ: Play, tryFallback, streamFile, the producer callback, the commands *)

FallbackFile == MaxNames + 1

Streaming == djpc \in {"select", "read", "cbcheck", "cbpush"}

Cmd(c, at) == [cmd |-> c, at |-> at]

\* Skip / ForceReload / Stop: non-blocking send to ctrl, dropped when it is full.
\* "at" is a history mark of a skip: "playing" when it was issued while the
\* streamFile call that is running now was running, "idle" when it was issued
\* while no streamFile call was running, "stale" when it was issued during a
\* streamFile call that has returned since.
Send(q, c) == IF Len(q) < CtrlCap THEN Append(q, c) ELSE q

DjCommand(c) ==
    /\ ctrl' = Send(ctrl, Cmd(c, IF c # "skip" THEN "none"
                                  ELSE IF Streaming THEN "playing" ELSE "idle"))
    /\ UNCHANGED <<djpc, ctxDone, current, nextT, startedAt, activeFile, path, filePos,
                   inFallback, fallback, lastEnd, lastPos, playEvents>>
    /\ UNCHANGED <<plVars, feedVars, liveVars>>
    /\ UNCHANGED heap
    /\ UNCHANGED restOfDj

Skip == DjCommand("skip")
ForceReload == DjCommand("reload")
Stop == DjCommand("stop")

End(kind, at) == [kind |-> kind, at |-> at]

\* the marks of the queued commands once the running streamFile call has returned
Stale(q) ==
    [i \in 1..Len(q) |-> IF q[i].at = "playing" THEN Cmd(q[i].cmd, "stale") ELSE q[i]]

\* SendPlayerBatch with one event; the history keeps the events from the last
\* track_started on
PlayEvent(type, file) == [type |-> type, file |-> file]
Emit(q, e) ==
    IF e.type = "track_started" THEN <<e>>
    ELSE IF Len(q) < MaxEvents THEN Append(q, e) ELSE q

\* a streamFile that sends track_ended however it returns (a variant of
\* EndEvents, to show that EndedOnlyAtEof depends on where the event is sent)
EndEventsAlways(kind, q, cur) == Emit(q, PlayEvent("track_ended", cur))

\* the events streamFile has sent when it returns: track_ended for a.current
\* where the read gave io.EOF, none at its other returns
EndEvents(kind, q, cur) ==
    IF kind = "eof" THEN Emit(q, PlayEvent("track_ended", cur)) ELSE q

\* the position started last, as long as the snapshot holds the same tracks
KeptPos == IF playlist'.tracks # playlist.tracks THEN -1 ELSE lastPos

\* streamFile starts: os.Open fails (a TrackError "open") or the loop is entered
OpenFile(p, fb, openErr) ==
    /\ path' = p
    /\ filePos' = 0
    /\ inFallback' = fb
    /\ IF openErr
         THEN /\ lastEnd' = End("open", "none")
              /\ djpc' = IF fb THEN "fbend" ELSE "advance"
         ELSE /\ djpc' = "select"
              /\ UNCHANGED lastEnd

\* The head of Play's loop: the ctx check, ensure, current / advance, nextTrack,
\* then either the Now-Playing update and the start of streamFile, or
\* tryFallback, or the 3 s sleep.
DjBegin ==
    /\ djpc = "top"
    /\ IF ctxDone
         THEN /\ djpc' = "returned"
              /\ UNCHANGED <<playlist, current, nextT, startedAt, activeFile, path, filePos,
                             inFallback, lastEnd>>
         ELSE \E q \in EnsureResults(playlist), openErr \in BOOLEAN :
                LET q2 == IF CurrentOk(q) THEN q ELSE Advance(q) IN
                IF CurrentOk(q2)
                  THEN /\ playlist' = q2
                       /\ current' = CurrentTrack(q2)
                       /\ nextT' = NextTrack(q2)
                       /\ startedAt' = now
                       /\ activeFile' = CurrentTrack(q2)
                       /\ OpenFile(CurrentTrack(q2), FALSE, openErr)
                  ELSE /\ playlist' = q2
                       /\ IF fallback = "present"
                            THEN /\ current' = FallbackFile
                                 /\ nextT' = 0
                                 /\ startedAt' = now
                                 /\ activeFile' = FallbackFile
                                 /\ OpenFile(FallbackFile, TRUE, openErr)
                            ELSE UNCHANGED <<djpc, current, nextT, startedAt, activeFile, path,
                                             filePos, inFallback, lastEnd>>
    /\ lastPos' = IF ~ctxDone /\ CurrentOk(playlist') THEN playlist'.idx ELSE KeptPos
    /\ playEvents' =
         IF djpc' = "select"
           THEN Emit(playEvents, PlayEvent("track_started", current'))
         ELSE IF djpc' \in {"advance", "fbend"}
           THEN EndEvents("open", Emit(playEvents, PlayEvent("track_started", current')),
                          current')
         ELSE playEvents
    /\ UNCHANGED <<ctxDone, ctrl, fallback>>
    /\ UNCHANGED <<plKind, dir, dirMod, now>>
    /\ UNCHANGED <<feedVars, liveVars>>
    /\ UNCHANGED heap
    /\ UNCHANGED restOfDj

\* streamFile returns to its caller: Play (which returns on Canceled and goes on
\* to advance otherwise) or tryFallback (which always goes on)
AfterStream(kind) ==
    IF inFallback THEN "fbend"
    ELSE IF kind = "canceled" THEN "returned" ELSE "advance"

\* The select of streamFile's loop: ctx.Done, a command from ctrl, or default.
DjSelect ==
    /\ djpc = "select"
    /\ \/ /\ ctxDone
          /\ lastEnd' = End("canceled", "none")
          /\ djpc' = AfterStream("canceled")
          /\ ctrl' = Stale(ctrl)
          /\ UNCHANGED playlist
       \/ /\ ctrl # <<>>
          /\ LET c == Head(ctrl) IN
             CASE c.cmd = "skip" ->
                    IF activeFile = path
                      THEN /\ lastEnd' = End("skipped", c.at)
                           /\ djpc' = AfterStream("skipped")
                           /\ ctrl' = Stale(Tail(ctrl))
                           /\ UNCHANGED playlist
                      ELSE /\ djpc' = "read"
                           /\ ctrl' = Tail(ctrl)
                           /\ UNCHANGED <<lastEnd, playlist>>
               [] c.cmd = "reload" ->
                    /\ \E q \in ForceReloadResults(playlist) : playlist' = q
                    /\ djpc' = "read"
                    /\ ctrl' = Tail(ctrl)
                    /\ UNCHANGED lastEnd
               [] c.cmd = "stop" ->
                    /\ lastEnd' = End("canceled", c.at)
                    /\ djpc' = AfterStream("canceled")
                    /\ ctrl' = Stale(Tail(ctrl))
                    /\ UNCHANGED playlist
       \/ /\ ~ctxDone
          /\ ctrl = <<>>
          /\ djpc' = "read"
          /\ UNCHANGED <<ctrl, lastEnd, playlist>>
    /\ lastPos' = KeptPos
    /\ playEvents' = IF djpc' = "read" THEN playEvents
                       ELSE EndEvents(lastEnd'.kind, playEvents, current)
    /\ UNCHANGED <<ctxDone, current, nextT, startedAt, activeFile, path, filePos,
                   inFallback, fallback>>
    /\ UNCHANGED <<plKind, dir, dirMod, now>>
    /\ UNCHANGED <<feedVars, liveVars>>
    /\ UNCHANGED heap
    /\ UNCHANGED restOfDj

\* the read buffer of the running streamFile call
StreamBuf == AutoBuf(reads - filePos)

\* f.Read(buf): a chunk, io.EOF at the end of the file, or a read error
DjRead ==
    /\ djpc = "read"
    /\ \/ /\ filePos < FileChunks
          /\ reads < MaxFileReads
          /\ heap' = [heap EXCEPT ![StreamBuf] = reads + 1]
          /\ filePos' = filePos + 1
          /\ reads' = reads + 1
          /\ djpc' = "cbcheck"
          /\ UNCHANGED <<lastEnd, ctrl>>
       \/ /\ filePos = FileChunks
          /\ lastEnd' = End("eof", "none")
          /\ djpc' = AfterStream("eof")
          /\ ctrl' = Stale(ctrl)
          /\ UNCHANGED <<filePos, reads, heap>>
       \/ /\ lastEnd' = End("read", "none")
          /\ djpc' = AfterStream("read")
          /\ ctrl' = Stale(ctrl)
          /\ UNCHANGED <<filePos, reads, heap>>
    /\ playEvents' = IF djpc' = "cbcheck" THEN playEvents
                       ELSE EndEvents(lastEnd'.kind, playEvents, current)
    /\ UNCHANGED <<ctxDone, current, nextT, startedAt, activeFile, path,
                   inFallback, fallback, lastPos>>
    /\ UNCHANGED <<feed, feedClosed, produced>>
    /\ UNCHANGED <<plVars, liveVars>>
    /\ UNCHANGED restOfDj

\* the producer callback of NewStudio, first half: if s.liveActive.Load() { return }
DjCbCheck ==
    /\ djpc = "cbcheck"
    /\ djpc' = IF liveActive THEN "select" ELSE "cbpush"
    /\ UNCHANGED <<ctxDone, ctrl, current, nextT, startedAt, activeFile, path, filePos,
                   inFallback, fallback, lastEnd, lastPos, playEvents>>
    /\ UNCHANGED <<plVars, feedVars, liveVars>>
    /\ UNCHANGED heap
    /\ UNCHANGED restOfDj

\* the producer callback, second half: s.push(b)
DjCbPush ==
    /\ djpc = "cbpush"
    /\ IF feedClosed
         THEN \* send on a closed channel: the goroutine panics
              /\ djpc' = "panicked"
              /\ UNCHANGED <<feed, produced>>
         ELSE /\ feed' = Push(feed, Chunk("auto", produced + 1, Copied(StreamBuf), reads))
              /\ produced' = IF Len(feed) < FeedCap THEN produced + 1 ELSE produced
              /\ djpc' = "select"
    /\ UNCHANGED <<ctxDone, ctrl, current, nextT, startedAt, activeFile, path, filePos,
                   inFallback, fallback, lastEnd, lastPos, playEvents>>
    /\ UNCHANGED <<feedClosed, reads>>
    /\ UNCHANGED <<plVars, liveVars>>
    /\ UNCHANGED heap
    /\ UNCHANGED restOfDj

\* tryFallback after its streamFile: activeFile = "", return true; Play continues
DjFallbackEnd ==
    /\ djpc = "fbend"
    /\ activeFile' = 0
    /\ djpc' = "top"
    /\ UNCHANGED <<ctxDone, ctrl, current, nextT, startedAt, path, filePos,
                   inFallback, fallback, lastEnd, lastPos, playEvents>>
    /\ UNCHANGED <<plVars, feedVars, liveVars>>
    /\ UNCHANGED heap
    /\ UNCHANGED restOfDj

\* "After file finishes (or skipped) - advance": ensure(); advance()
DjAdvance ==
    /\ djpc = "advance"
    /\ \E q \in EnsureResults(playlist) : playlist' = Advance(q)
    /\ lastPos' = KeptPos
    /\ djpc' = "top"
    /\ UNCHANGED <<ctxDone, ctrl, current, nextT, startedAt, activeFile, path, filePos,
                   inFallback, fallback, lastEnd, playEvents>>
    /\ UNCHANGED <<plKind, dir, dirMod, now>>
    /\ UNCHANGED <<feedVars, liveVars>>
    /\ UNCHANGED heap
    /\ UNCHANGED restOfDj

DjNext ==
    \/ DjBegin
    \/ DjSelect
    \/ DjRead
    \/ DjCbCheck
    \/ DjCbPush
    \/ DjFallbackEnd
    \/ DjAdvance

----------------------------------------------------------------------------
(* A producer that calls Studio.push directly (the feed is open) *)

StudioPush ==
    /\ ~feedClosed
    /\ produced < MaxChunks
    /\ feed' = Push(feed, Chunk("test", produced + 1, Fresh, produced + 1))
    /\ produced' = IF Len(feed) < FeedCap THEN produced + 1 ELSE produced
    /\ UNCHANGED <<feedClosed, reads>>
    /\ UNCHANGED restOfPush

----------------------------------------------------------------------------
(* Distributor: Studio.distribute *)

\* the distributor holds listenersMu in read mode
DistHoldsRLock == rlocks["dist"] > 0

\* the holders of read locks
LockReaders == {"dist", "status", "collect"}

\* somebody holds listenersMu in read mode: Lock() has to wait
ReadLocked == \E p \in LockReaders : rlocks[p] > 0

\* an RUnlock that is left out (a variant of RUnlock, to show that
\* LockUpgradeIsClean depends on the release before removeListener)
RUnlockSkipped(r, p) == r

\* s.listenersMu.RLock() / RUnlock() by p
RLock(r, p) == [r EXCEPT ![p] = @ + 1]
RUnlock(r, p) == [r EXCEPT ![p] = @ - 1]

\* an eviction test that fires one drop early (a variant of DropExceeded, to
\* show that EvictionOnlyAfterDropLimit depends on the comparison)
DropReached(d) == d >= DropLimit

\* the eviction test of distribute
DropExceeded(d) == d > DropLimit

\* a send that delivers the chunk twice (a variant of ChanSend, to show that
\* ListenerGetsContiguousRun depends on the delivery)
ChanSendTwice(q, c) == Append(Append(q, c), c)

\* "ls.ch <- data" with room in the channel
ChanSend(q, c) == Append(q, c)

\* "for data := range s.feed": receive the next chunk, or stop on a closed and
\* drained feed
DistRecv ==
    /\ dpc = "recv"
    /\ \/ /\ feed # <<>>
          /\ ddata' = Head(feed)
          /\ feed' = Tail(feed)
          /\ dpc' = "rlock"
       \/ /\ feed = <<>>
          /\ feedClosed
          /\ dpc' = "stopped"
          /\ UNCHANGED <<ddata, feed>>
    /\ UNCHANGED <<rlocks, byteSent>>
    /\ UNCHANGED <<streamListeners, listenersStore, ch, chClosed, droppedInARow, hpc,
                   dleft, dcur, joinedAt, got, everDropped, evictedAt>>
    /\ UNCHANGED <<feedClosed, produced, reads>>
    /\ UNCHANGED <<disconnectedAt, joinedLive>>
    /\ UNCHANGED restOfDist

\* s.listenersMu.RLock() and the start of "for ls := range s.streamListeners"
DistRLock ==
    /\ dpc = "rlock"
    /\ dleft' = streamListeners
    /\ rlocks' = RLock(rlocks, "dist")
    /\ dpc' = "iter"
    /\ UNCHANGED byteSent
    /\ UNCHANGED <<streamListeners, listenersStore, ch, chClosed, droppedInARow, hpc,
                   ddata, dcur, joinedAt, got, everDropped, evictedAt>>
    /\ UNCHANGED feedVars
    /\ UNCHANGED <<disconnectedAt, joinedLive>>
    /\ UNCHANGED restOfDist

\* a send that waits for room in the channel (a variant of SelectSend, to
\* show that DistributorNeverWaits depends on the default case)
BlockingSend(q) == IF Len(q) < ChanCap THEN "sent" ELSE "blocked"

\* "select { case ls.ch <- data: ... default: ... }" on an open channel: the
\* case taken
SelectSend(q) == IF Len(q) < ChanCap THEN "sent" ELSE "default"

\* the length of a chunk: every chunk of the model is one unit long
ChunkLen(c) == 1

\* "ls.l.ByteSent.Add(int64(len(data)))", the statement after the select
AddBytes(b, ls, c) == [b EXCEPT ![ls] = @ + ChunkLen(c)]

\* One iteration of the range loop up to the end of the select: the
\* non-blocking send, the counter, and on eviction close(ls.ch) and RUnlock().
\* Without eviction the rest of the iteration (ByteSent, heartbeat) follows.
DistSend ==
    /\ dpc = "iter"
    /\ \E ls \in dleft :
         /\ dleft' = dleft \ {ls}
         /\ IF chClosed[ls]
              THEN \* send on a closed channel
                   /\ dpc' = "panicked"
                   /\ UNCHANGED <<ch, chClosed, droppedInARow, everDropped, evictedAt, dcur>>
                   /\ UNCHANGED <<rlocks, byteSent>>
              ELSE IF SelectSend(ch[ls]) = "sent"
                THEN /\ ch' = [ch EXCEPT ![ls] = ChanSend(@, ddata)]
                     /\ droppedInARow' = [droppedInARow EXCEPT ![ls] = 0]
                     /\ byteSent' = AddBytes(byteSent, ls, ddata)
                     /\ dpc' = "iter"
                     /\ UNCHANGED <<chClosed, everDropped, evictedAt, dcur>>
                     /\ UNCHANGED rlocks
                ELSE /\ SelectSend(ch[ls]) = "default"
                     /\ droppedInARow' = [droppedInARow EXCEPT ![ls] = @ + 1]
                     /\ everDropped' = [everDropped EXCEPT ![ls] = TRUE]
                     /\ IF DropExceeded(droppedInARow[ls] + 1)
                          THEN /\ chClosed' = [chClosed EXCEPT ![ls] = TRUE]
                               /\ evictedAt' = [evictedAt EXCEPT ![ls] = ddata.id]
                               /\ dcur' = ls
                               /\ rlocks' = RUnlock(rlocks, "dist")
                               /\ dpc' = "remove"
                               /\ UNCHANGED byteSent
                          ELSE /\ byteSent' = AddBytes(byteSent, ls, ddata)
                               /\ dpc' = "iter"
                               /\ UNCHANGED <<chClosed, evictedAt, dcur>>
                               /\ UNCHANGED rlocks
                     /\ UNCHANGED ch
    /\ UNCHANGED <<streamListeners, listenersStore, hpc, ddata, joinedAt, got>>
    /\ UNCHANGED feedVars
    /\ UNCHANGED <<disconnectedAt, joinedLive>>
    /\ UNCHANGED restOfDist

\* a range loop that still yields an entry deleted from the map (a variant
\* of Unreached, to show that NoSendOnClosedChannel depends on the delete)
UnreachedKept(left, l) == left

\* "for ls := range s.streamListeners" after delete(s.streamListeners, l): an
\* entry removed before the loop has reached it is not produced
Unreached(left, l) == left \ {l}

\* s.removeListener(ls): Lock(); delete(s.streamListeners, ls); Unlock()
DistRemove ==
    /\ dpc = "remove"
    /\ ~ReadLocked
    /\ UNCHANGED <<rlocks, byteSent>>
    /\ streamListeners' = streamListeners \ {dcur}
    /\ dleft' = Unreached(dleft, dcur)
    /\ dpc' = "relock"
    /\ UNCHANGED <<listenersStore, ch, chClosed, droppedInARow, hpc, ddata, dcur,
                   joinedAt, got, everDropped, evictedAt>>
    /\ UNCHANGED feedVars
    /\ UNCHANGED <<disconnectedAt, joinedLive>>
    /\ UNCHANGED restOfDist

\* s.listenersMu.RLock() after the eviction, and the rest of the iteration
\* (ByteSent.Add, the heartbeat)
DistRelock ==
    /\ dpc = "relock"
    /\ rlocks' = RLock(rlocks, "dist")
    /\ byteSent' = AddBytes(byteSent, dcur, ddata)
    /\ dcur' = 0
    /\ dpc' = "iter"
    /\ UNCHANGED <<streamListeners, listenersStore, ch, chClosed, droppedInARow, hpc, ddata,
                   dleft, joinedAt, got, everDropped, evictedAt>>
    /\ UNCHANGED feedVars
    /\ UNCHANGED <<disconnectedAt, joinedLive>>
    /\ UNCHANGED restOfDist

\* the range loop is over: s.listenersMu.RUnlock()
DistRUnlock ==
    /\ dpc = "iter"
    /\ dleft = {}
    /\ rlocks' = RUnlock(rlocks, "dist")
    /\ dpc' = "recv"
    /\ UNCHANGED byteSent
    /\ UNCHANGED <<streamListeners, listenersStore, ch, chClosed, droppedInARow, hpc, ddata,
                   dleft, dcur, joinedAt, got, everDropped, evictedAt>>
    /\ UNCHANGED feedVars
    /\ UNCHANGED <<disconnectedAt, joinedLive>>
    /\ UNCHANGED restOfDist

DistNext ==
    \/ DistRecv
    \/ DistRLock
    \/ DistSend
    \/ DistRemove
    \/ DistRelock
    \/ DistRUnlock

----------------------------------------------------------------------------
(* The other readers of the listener set: Studio.HandleStatus and the
   analytics collector, Studio.collectSessions *)

\* HandleStatus: RLock(), len(s.streamListeners)
StatusRLock ==
    /\ rlocks["status"] = 0
    /\ rlocks' = RLock(rlocks, "status")
    /\ UNCHANGED restOfLock

\* HandleStatus: RUnlock() and the answer
StatusRUnlock ==
    /\ rlocks["status"] > 0
    /\ rlocks' = RUnlock(rlocks, "status")
    /\ UNCHANGED restOfLock

\* collectSessions: RLock() and the range loop over the set
CollectRLock ==
    /\ rlocks["collect"] = 0
    /\ rlocks' = RLock(rlocks, "collect")
    /\ UNCHANGED restOfLock

\* collectSessions returns: the deferred RUnlock()
CollectRUnlock ==
    /\ rlocks["collect"] > 0
    /\ rlocks' = RUnlock(rlocks, "collect")
    /\ UNCHANGED restOfLock

ReadersNext ==
    \/ StatusRLock
    \/ StatusRUnlock
    \/ CollectRLock
    \/ CollectRUnlock

----------------------------------------------------------------------------
(* Listener handler: Studio.HandleListen *)

\* the range loop of distribute is under way with the lock released
InEvictionWindow == dpc \in {"remove", "relock"}

\* ResponseWriter.WriteHeader: the first call sends the status line, a later
\* call is superfluous and changes nothing
WriteHeader(sent, code) == IF sent = 0 THEN code ELSE sent

\* http.Error(w, msg, code): headers, w.WriteHeader(code), the message
HttpError(sent, code) == WriteHeader(sent, code)

\* a handler that does not enter its listener in the registry (a variant of
\* StoreAdd, to show that RegisteredBeforeListening depends on Store.Add)
StoreAddNone(S, l) == S

\* Store.Add: s.listeners[l.ID] = l
StoreAdd(S, l) == S \cup {l}

\* The handler up to s.listenersStore.Add(l): the headers and
\* w.WriteHeader(200), then the test for http.Flusher, which ends the request
\* with http.Error(.., 500) when it fails.
ListenStart(l) ==
    /\ hpc[l] = "idle"
    /\ IF flushable[l]
         THEN /\ hstatus' = [hstatus EXCEPT ![l] = WriteHeader(hstatus[l], 200)]
              /\ listenersStore' = StoreAdd(listenersStore, l)
              /\ hpc' = [hpc EXCEPT ![l] = "added"]
         ELSE /\ hstatus' = [hstatus EXCEPT ![l] = HttpError(WriteHeader(hstatus[l], 200), 500)]
              /\ hpc' = [hpc EXCEPT ![l] = "refused"]
              /\ UNCHANGED listenersStore
    /\ UNCHANGED <<streamListeners, ch, chClosed, droppedInARow, dpc, ddata, dleft, dcur,
                   joinedAt, got, everDropped, evictedAt>>
    /\ UNCHANGED <<disconnectedAt, joinedLive>>
    /\ UNCHANGED <<restOfHandler, flushable>>

\* Lock(); s.streamListeners[sl] = struct{}{}; Unlock(). An entry added while
\* a range loop over the map is under way may or may not be produced by it.
ListenRegister(l) ==
    /\ hpc[l] = "added"
    /\ ~ReadLocked
    /\ streamListeners' = streamListeners \cup {l}
    /\ joinedAt' = [joinedAt EXCEPT ![l] = ddata.id]
    /\ joinedLive' = [joinedLive EXCEPT ![l] = IF liveActive THEN liveIngest ELSE 0]
    /\ \/ UNCHANGED dleft
       \/ /\ InEvictionWindow
          /\ dleft' = dleft \cup {l}
    /\ hpc' = [hpc EXCEPT ![l] = "loop"]
    /\ UNCHANGED <<listenersStore, ch, chClosed, droppedInARow, dpc, ddata, dcur,
                   got, everDropped, evictedAt>>
    /\ UNCHANGED disconnectedAt
    /\ UNCHANGED restOfListen

\* Listener.MarkDisconnected, called by the deferred exit of the handler
MarkDisconnected(d) == Append(d, "handler")

\* "for data := range sl.ch": the next chunk and its w.Write, which succeeds
\* or fails; or the end of the loop on a closed and drained channel. On the way
\* out the deferred exit starts with l.MarkDisconnected().
ListenRecv(l) ==
    /\ hpc[l] = "loop"
    /\ \/ /\ ch[l] # <<>>
          /\ ch' = [ch EXCEPT ![l] = Tail(@)]
          /\ got' = [got EXCEPT ![l] = Append(@, Head(ch[l]))]
          /\ \E writeErr \in BOOLEAN :
               IF writeErr
                 THEN /\ hpc' = [hpc EXCEPT ![l] = "delete"]
                      /\ disconnectedAt' = [disconnectedAt EXCEPT ![l] = MarkDisconnected(@)]
                 ELSE /\ hpc' = [hpc EXCEPT ![l] = "loop"]
                      /\ UNCHANGED disconnectedAt
       \/ /\ ch[l] = <<>>
          /\ chClosed[l]
          /\ hpc' = [hpc EXCEPT ![l] = "delete"]
          /\ disconnectedAt' = [disconnectedAt EXCEPT ![l] = MarkDisconnected(@)]
          /\ UNCHANGED <<ch, got>>
    /\ UNCHANGED <<streamListeners, listenersStore, chClosed, droppedInARow, dpc, ddata,
                   dleft, dcur, joinedAt, everDropped, evictedAt, joinedLive>>
    /\ UNCHANGED restOfListen

\* the deferred exit, Lock(); delete(s.streamListeners, sl); Unlock()
ListenDelete(l) ==
    /\ hpc[l] = "delete"
    /\ ~ReadLocked
    /\ streamListeners' = streamListeners \ {l}
    /\ dleft' = Unreached(dleft, l)
    /\ hpc' = [hpc EXCEPT ![l] = "unstore"]
    /\ UNCHANGED <<listenersStore, ch, chClosed, droppedInARow, dpc, ddata, dcur,
                   joinedAt, got, everDropped, evictedAt>>
    /\ UNCHANGED <<disconnectedAt, joinedLive>>
    /\ UNCHANGED restOfListen

\* a Remove that leaves the entry in the registry (a variant of StoreRemove,
\* to show that ListenerExitIsClean depends on the removal)
StoreKeep(S, l) == S

\* Store.Remove
StoreRemove(S, l) == S \ {l}

\* the deferred exit, s.listenersStore.Remove(l.ID)
ListenStoreRemove(l) ==
    /\ hpc[l] = "unstore"
    /\ listenersStore' = StoreRemove(listenersStore, l)
    /\ hpc' = [hpc EXCEPT ![l] = "close"]
    /\ UNCHANGED <<streamListeners, ch, chClosed, droppedInARow, dpc, ddata, dleft, dcur,
                   joinedAt, got, everDropped, evictedAt>>
    /\ UNCHANGED <<disconnectedAt, joinedLive>>
    /\ UNCHANGED restOfListen

\* the deferred exit, close(sl.ch): closing a closed channel panics
ListenClose(l) ==
    /\ hpc[l] = "close"
    /\ IF chClosed[l]
         THEN /\ hpc' = [hpc EXCEPT ![l] = "panicked"]
              /\ UNCHANGED chClosed
         ELSE /\ hpc' = [hpc EXCEPT ![l] = "done"]
              /\ chClosed' = [chClosed EXCEPT ![l] = TRUE]
    /\ UNCHANGED <<streamListeners, listenersStore, ch, droppedInARow, dpc, ddata, dleft, dcur,
                   joinedAt, got, everDropped, evictedAt>>
    /\ UNCHANGED <<disconnectedAt, joinedLive>>
    /\ UNCHANGED restOfListen

\* the steps of one HandleListen call
ListenSteps(l) ==
    \/ ListenStart(l)
    \/ ListenRegister(l)
    \/ ListenRecv(l)
    \/ ListenDelete(l)
    \/ ListenStoreRemove(l)
    \/ ListenClose(l)

ListenNext == \E l \in Listeners : ListenSteps(l)

----------------------------------------------------------------------------
(* Studio.Close: close(s.stop); s.autoDJCancel(); close(s.feed) *)

CloseStop ==
    /\ cpc = "idle"
    /\ cpc' = "cancel"
    /\ UNCHANGED <<feedVars, ctxDone>>
    /\ UNCHANGED restOfClose

CloseCancel ==
    /\ cpc = "cancel"
    /\ ctxDone' = TRUE
    /\ cpc' = "feed"
    /\ UNCHANGED feedVars
    /\ UNCHANGED restOfClose

CloseFeed ==
    /\ cpc = "feed"
    /\ feedClosed' = TRUE
    /\ cpc' = "done"
    /\ UNCHANGED <<feed, produced, reads, ctxDone>>
    /\ UNCHANGED restOfClose

CloseNext ==
    \/ CloseStop
    \/ CloseCancel
    \/ CloseFeed

----------------------------------------------------------------------------
(* Geo resolver: Resolver.Enrich, hashOnly, hashAndNull *)

Bytes == {1, 2}
IPs == UNION {[1..n -> Bytes] : n \in 1..MaxIpLen}

\* r.salt, the bytes of the configured salt
Salt == <<0>>

\* hex.EncodeToString(sha256.Sum256(b)): a digest stands for the bytes hashed
HashHex(b) == <<"sha256", b>>

NoView == [shared |-> FALSE, bytes |-> <<>>]

\* the bytes a slice denotes: a slice that shares r.salt's array reads the array
ViewBytes(v) ==
    IF v.shared THEN Salt \o SubSeq(saltBuf, 1, Len(v.bytes)) ELSE v.bytes

\* HandleListen creates the listener with the client's IP (nil when none
\* parses) and starts Enrich; Enrich up to the GeoIP lookup
GeoStart(l) ==
    /\ gpc[l] = "idle"
    /\ \E ip \in IPs \cup {<<>>}, lookupErr \in BOOLEAN, iso \in {0, 1} :
         /\ remoteIP' = [remoteIP EXCEPT ![l] = ip]
         /\ origIP' = [origIP EXCEPT ![l] = ip]
         /\ IF ~geoOk \/ ip = <<>> \/ lookupErr
              THEN /\ gpc' = [gpc EXCEPT ![l] = "hashOnly"]
                   /\ UNCHANGED country
              ELSE /\ gpc' = [gpc EXCEPT ![l] = "hashAndNull"]
                   /\ country' = [country EXCEPT ![l] = iso]
    /\ UNCHANGED <<geoOk, saltSpare, saltBuf, ipHash, enriched, gview>>
    /\ UNCHANGED restOfGeo

\* hashAndNull up to append(r.salt, ip...): with room in r.salt's array the
\* bytes are written there and the result shares it, else the result is a copy
GeoAppend(l) ==
    /\ gpc[l] \in {"hashOnly", "hashAndNull"}
    /\ IF remoteIP[l] = <<>>
         THEN /\ gpc' = [gpc EXCEPT ![l] = IF gpc[l] = "hashOnly" THEN "done" ELSE "store"]
              /\ UNCHANGED <<saltBuf, gview>>
         ELSE /\ IF Len(remoteIP[l]) <= saltSpare
                   THEN /\ saltBuf' = [i \in 1..saltSpare |->
                                         IF i <= Len(remoteIP[l]) THEN remoteIP[l][i] ELSE saltBuf[i]]
                        /\ gview' = [gview EXCEPT ![l] = [shared |-> TRUE, bytes |-> remoteIP[l]]]
                   ELSE /\ gview' = [gview EXCEPT ![l] =
                                       [shared |-> FALSE, bytes |-> Salt \o remoteIP[l]]]
                        /\ UNCHANGED saltBuf
              /\ gpc' = [gpc EXCEPT ![l] = IF gpc[l] = "hashOnly" THEN "sumOnly" ELSE "sum"]
    /\ UNCHANGED <<geoOk, saltSpare, remoteIP, origIP, ipHash, country, enriched>>
    /\ UNCHANGED restOfGeo

\* hashAndNull, the rest: sha256.Sum256 of the slice, IPHash, RemoteIP = nil
GeoSum(l) ==
    /\ gpc[l] \in {"sumOnly", "sum"}
    /\ ipHash' = [ipHash EXCEPT ![l] = HashHex(ViewBytes(gview[l]))]
    /\ remoteIP' = [remoteIP EXCEPT ![l] = <<>>]
    /\ gpc' = [gpc EXCEPT ![l] = IF gpc[l] = "sumOnly" THEN "done" ELSE "store"]
    /\ UNCHANGED <<geoOk, saltSpare, saltBuf, origIP, country, enriched, gview>>
    /\ UNCHANGED restOfGeo

\* l.Enriched.Store(true)
GeoStore(l) ==
    /\ gpc[l] = "store"
    /\ enriched' = [enriched EXCEPT ![l] = TRUE]
    /\ gpc' = [gpc EXCEPT ![l] = "done"]
    /\ UNCHANGED <<geoOk, saltSpare, saltBuf, remoteIP, origIP, ipHash, country, gview>>
    /\ UNCHANGED restOfGeo

GeoNext ==
    \E l \in Listeners :
        \/ GeoStart(l)
        \/ GeoAppend(l)
        \/ GeoSum(l)
        \/ GeoStore(l)

----------------------------------------------------------------------------
(* Manager: RegisterStudio, RemoveStudio, Shutdown *)

\* the holder of Manager.mu during Shutdown
ShutdownHolder == -1

\* NewStudio: the goroutines it starts (distribute, snapshotLoop, and
\* autoDJ.Play when there is an AutoDJ factory)
NewStudio(id, withDJ) ==
    [id |-> id, tasks |-> {"distribute", "snapshot"} \cup (IF withDJ THEN {"autodj"} ELSE {})]

\* a lookup that never finds the entry (a variant of Lookup, to show that
\* RegisterIsIdempotent depends on the lookup)
LookupMiss(m, id) == 0

\* "s, ok := m.studios[studioID]": 0 when there is no entry
Lookup(m, id) == m[id]

\* a RegisterStudio(studioID) call is made
RegisterCall(c) ==
    /\ rpc[c] = "idle"
    /\ \E id \in StudioIds : rarg' = [rarg EXCEPT ![c] = id]
    /\ rpc' = [rpc EXCEPT ![c] = "called"]
    /\ UNCHANGED <<mgrMu, studios, objs, autoDJFactory, rret, removed, spc, closers, wg>>
    /\ UNCHANGED restOfMgr

\* RegisterStudio from m.mu.Lock() to the deferred Unlock
RegisterStudio(c) ==
    /\ rpc[c] = "called"
    /\ mgrMu = 0
    /\ IF Lookup(studios, rarg[c]) # 0
         THEN /\ rret' = [rret EXCEPT ![c] = Lookup(studios, rarg[c])]
              /\ UNCHANGED <<studios, objs>>
         ELSE /\ objs' = Append(objs, NewStudio(rarg[c], autoDJFactory))
              /\ studios' = [studios EXCEPT ![rarg[c]] = Len(objs) + 1]
              /\ rret' = [rret EXCEPT ![c] = Len(objs) + 1]
    /\ rpc' = [rpc EXCEPT ![c] = "returned"]
    /\ UNCHANGED <<mgrMu, autoDJFactory, rarg, removed, spc, closers, wg>>
    /\ UNCHANGED restOfMgr

\* RemoveStudio(studioID) that finds the entry: the entry is deleted, the
\* Studio is not closed
RemoveStudio ==
    /\ mgrMu = 0
    /\ Len(removed) < MaxRemoves
    /\ \E id \in StudioIds :
         /\ studios[id] # 0
         /\ studios' = [studios EXCEPT ![id] = 0]
         /\ removed' = Append(removed, id)
    /\ UNCHANGED <<mgrMu, objs, autoDJFactory, rpc, rarg, rret, spc, closers, wg>>
    /\ UNCHANGED restOfMgr

\* Shutdown: m.mu.Lock(), and for every registered studio wg.Add(1) and the
\* start of its goroutine
ShutdownStart ==
    /\ spc = "idle"
    /\ mgrMu = 0
    /\ mgrMu' = ShutdownHolder
    /\ closers' = {studios[id] : id \in {i \in StudioIds : studios[i] # 0}}
    /\ wg' = Cardinality({i \in StudioIds : studios[i] # 0})
    /\ spc' = "wait"
    /\ UNCHANGED <<studios, objs, autoDJFactory, rpc, rarg, rret, removed>>
    /\ UNCHANGED restOfMgr

\* the goroutine of Shutdown for one studio: a log line and the deferred
\* wg.Done()
ShutdownCloser(o) ==
    /\ o \in closers
    /\ closers' = closers \ {o}
    /\ wg' = wg - 1
    /\ UNCHANGED <<mgrMu, studios, objs, autoDJFactory, rpc, rarg, rret, removed, spc>>
    /\ UNCHANGED restOfMgr

\* wg.Wait() returns, the deferred m.mu.Unlock(), Shutdown returns
ShutdownReturn ==
    /\ spc = "wait"
    /\ wg = 0
    /\ spc' = "returned"
    /\ mgrMu' = 0
    /\ UNCHANGED <<studios, objs, autoDJFactory, rpc, rarg, rret, removed, closers, wg>>
    /\ UNCHANGED restOfMgr

MgrNext ==
    \/ \E c \in Calls : RegisterCall(c) \/ RegisterStudio(c)
    \/ RemoveStudio
    \/ ShutdownStart
    \/ \E o \in 1..MaxCalls : ShutdownCloser(o)
    \/ ShutdownReturn

----------------------------------------------------------------------------
(* The router: Manager.RouteStudioRequest *)

\* A segment of a path: the id of a studio that can be registered (id), or
\* another word (w); the empty segment is Seg(0, "")
Seg(id, w) == [id |-> id, w |-> w]

\* the words of the switch, one that is no action, and an id nobody registers
Actions == {"live", "listen", "status", "snapshot", "skip", "now"}
Words == Actions \cup {"", "metadata", "nobody"}

\* strings.Split(strings.TrimPrefix(path, "/studio/"), "/"): a string has
\* exactly one list of "/"-free segments, never an empty list, so the request
\* paths are given by their lists of segments. The paths of the model: one
\* segment, two segments, and two segments followed by a third.
Firsts == {Seg(i, "") : i \in StudioIds} \cup {Seg(0, ""), Seg(0, "nobody")}
Seconds == {Seg(0, w) : w \in Words} \cup {Seg(1, "")}
Paths ==
    {<<a>> : a \in Firsts \cup {Seg(0, "live")}}
      \cup {<<a, b>> : a \in Firsts, b \in Seconds}
      \cup {<<a, b, Seg(0, "metadata")>> : a \in Firsts, b \in Seconds}

\* Manager.GetStudio: the Studio registered under the segment (0 = none)
GetStudio(seg) == IF seg.id \in StudioIds THEN Lookup(studios, seg.id) ELSE 0

\* a switch whose skip case calls the Now-Playing handler (a variant of
\* Dispatch, to show that RoutingIsExact depends on the switch)
DispatchSkipAsNow(action) ==
    CASE action = Seg(0, "live") -> "HandleLiveIngest"
      [] action = Seg(0, "listen") -> "HandleListen"
      [] action = Seg(0, "status") -> "HandleStatus"
      [] action = Seg(0, "snapshot") -> "HandleSnapshot"
      [] action = Seg(0, "skip") -> "HandleNowPlaying"
      [] action = Seg(0, "now") -> "HandleNowPlaying"
      [] OTHER -> "none"

\* the switch on the action: the handler called ("none" = default)
Dispatch(action) ==
    CASE action = Seg(0, "live") -> "HandleLiveIngest"
      [] action = Seg(0, "listen") -> "HandleListen"
      [] action = Seg(0, "status") -> "HandleStatus"
      [] action = Seg(0, "snapshot") -> "HandleSnapshot"
      [] action = Seg(0, "skip") -> "HandleSkip"
      [] action = Seg(0, "now") -> "HandleNowPlaying"
      [] OTHER -> "none"

\* what the router did with a request: the status it wrote itself (0 = it
\* wrote none and called a handler), the Studio and the handler it called
Routed(n, parts, status, obj, handler) ==
    [n |-> n, path |-> parts, status |-> status, obj |-> obj, handler |-> handler]

NoRoute == Routed(0, <<>>, 0, 0, "none")

\* RouteStudioRequest; GetStudio takes Manager.mu in read mode
RouteStudioRequest ==
    /\ mgrMu = 0
    /\ route.n < MaxRoutes
    /\ \E parts \in Paths :
         route' =
           IF Len(parts) < 2 THEN Routed(route.n + 1, parts, 400, 0, "none")
           ELSE IF GetStudio(parts[1]) = 0 THEN Routed(route.n + 1, parts, 404, 0, "none")
           ELSE IF Dispatch(parts[2]) = "none" THEN Routed(route.n + 1, parts, 404, 0, "none")
           ELSE Routed(route.n + 1, parts, 0, GetStudio(parts[1]), Dispatch(parts[2]))
    /\ UNCHANGED mgrVars
    /\ UNCHANGED restOfRoute

InitRoute == route = NoRoute

----------------------------------------------------------------------------
(* The /now endpoint: Studio.HandleNowPlaying over autoDJ.NowPlaying *)

\* the answer for a studio with nothing playing
NoResp == [cur |-> 0, elapsed |-> 0]

\* time.Since(started)
Elapsed(t, started) == t - started

\* HandleNowPlaying: current and startedAt are read under the AutoDJ's lock
\* (the next track, which the answer also carries, is left out); with no
\* current file the answer is empty
HandleNowPlaying ==
    /\ nowResp' = IF current = 0 THEN NoResp
                  ELSE [cur |-> current, elapsed |-> Elapsed(now, startedAt)]
    /\ UNCHANGED restOfNow

InitNow == nowResp = NoResp

----------------------------------------------------------------------------
(* The specifications *)

vars == <<liveVars, feedVars, bufVars, plVars, djVars, closeVars, fanVars, geoVars, mgrVars,
          nowVars, routeVars, respVars, lockVars, byteVars,
          graceVars, analyticsVars, fetchVars, cursorVars>>

\* NewManager, with or without an AutoDJ factory
InitMgr(factories) ==
    /\ mgrMu = 0
    /\ studios = [id \in StudioIds |-> 0]
    /\ objs = <<>>
    /\ autoDJFactory \in factories
    /\ rpc = [c \in Calls |-> "idle"]
    /\ rarg = [c \in Calls |-> 0]
    /\ rret = [c \in Calls |-> 0]
    /\ removed = <<>>
    /\ spc = "idle"
    /\ closers = {}
    /\ wg = 0

\* reqs: the requests the source clients send
InitLive(reqs) ==
    /\ clients = reqs
    /\ lauth = [h \in LiveHandlers |-> FALSE]
    /\ lin = [h \in LiveHandlers |-> NoIn]
    /\ liveActive = FALSE
    /\ liveIngest = 0
    /\ liveMeta = 0
    /\ liveMu = 0
    /\ lpc = [h \in LiveHandlers |-> "idle"]
    /\ lreq = [h \in LiveHandlers |-> NoReq]
    /\ lresp = [h \in LiveHandlers |-> 0]
    /\ lgot = [h \in LiveHandlers |-> 0]
    /\ lclosed = [h \in LiveHandlers |-> FALSE]

InitFeed ==
    /\ feed = <<>>
    /\ feedClosed = FALSE
    /\ produced = 0
    /\ reads = 0

\* no read buffer has been written
InitBufs == heap = [b \in BufIds |-> 0]

\* newPlaylistState / newBackendPlaylist; the directory holds dir0
InitPlaylist(kinds, dir0) ==
    /\ plKind \in kinds
    /\ playlist = [tracks |-> <<>>, idx |-> -1, last |-> NoTime]
    /\ dir = dir0
    /\ dirMod = 0
    /\ now = 0

\* NewAutoDJ, and Play about to start
InitDj(fallbacks) ==
    /\ djpc = "top"
    /\ ctxDone = FALSE
    /\ ctrl = <<>>
    /\ current = 0
    /\ nextT = 0
    /\ startedAt = NoTime
    /\ activeFile = 0
    /\ path = 0
    /\ filePos = 0
    /\ inFallback = FALSE
    /\ fallback \in fallbacks
    /\ lastEnd = End("none", "none")
    /\ lastPos = -1
    /\ playEvents = <<>>

\* NewStudio: the distributor is started, nobody listens
InitFan ==
    /\ streamListeners = {}
    /\ listenersStore = {}
    /\ ch = [l \in Listeners |-> <<>>]
    /\ chClosed = [l \in Listeners |-> FALSE]
    /\ droppedInARow = [l \in Listeners |-> 0]
    /\ hpc = [l \in Listeners |-> "idle"]
    /\ dpc = "recv"
    /\ ddata = Chunk("none", 0, Fresh, 0)
    /\ dleft = {}
    /\ dcur = 0
    /\ joinedAt = [l \in Listeners |-> 0]
    /\ got = [l \in Listeners |-> <<>>]
    /\ everDropped = [l \in Listeners |-> FALSE]
    /\ evictedAt = [l \in Listeners |-> 0]
    /\ disconnectedAt = [l \in Listeners |-> <<>>]
    /\ joinedLive = [l \in Listeners |-> 0]
    /\ cpc = "idle"

\* no call of advance() or nextTrack() yet
InitCursor(i) ==
    /\ walk = <<i>>
    /\ peeked = NoPeek

\* no GET was issued
InitFetch == getTimes = <<>>

\* StartAnalytics has started its task: no bucket, last = now
InitAnalytics(starts) ==
    /\ apc = "wait"
    /\ stopClosed = FALSE
    /\ bk = {}
    /\ alast \in starts
    /\ batch = {}
    /\ posted = "none"
    /\ drainedKeys = {}
    /\ aticks = 0

\* the read loops about to start, for requests of the given kinds
InitLoop(putLikes) == loop \in [LiveHandlers -> {LoopStart(pl) : pl \in putLikes}]

\* a Listener is made with ByteSent zero
InitBytes == byteSent = [l \in Listeners |-> 0]

\* NewStudio: nobody holds listenersMu
InitLock == rlocks = [p \in LockReaders |-> 0]

\* the ResponseWriters the /listen requests will come with
InitWriters(kinds) ==
    /\ flushable \in [Listeners -> kinds]
    /\ hstatus = [l \in Listeners |-> 0]

\* NewResolver
InitGeo(oks, spares) ==
    /\ geoOk \in oks
    /\ saltSpare \in spares
    /\ saltBuf = [i \in 1..saltSpare |-> 0]
    /\ remoteIP = [l \in Listeners |-> <<>>]
    /\ origIP = [l \in Listeners |-> <<>>]
    /\ ipHash = [l \in Listeners |-> <<>>]
    /\ country = [l \in Listeners |-> 0]
    /\ enriched = [l \in Listeners |-> FALSE]
    /\ gpc = [l \in Listeners |-> "idle"]
    /\ gview = [l \in Listeners |-> NoView]

Dirs == [Names -> {"none", "mp3", "other", "dir"}]
\* a directory with one audio file
OneFile == [n \in Names |-> IF n = 1 THEN "mp3" ELSE "none"]

\* ---- the whole studio
Init ==
    /\ InitLive(Requests)
    /\ InitFeed
    /\ InitBufs
    /\ InitNow
    /\ InitRoute
    /\ InitFetch
    /\ InitCursor(-1)
    /\ InitAnalytics({0})
    /\ InitLoop({TRUE})
    /\ InitLock
    /\ InitWriters({TRUE})
    /\ InitMgr({TRUE})
    /\ InitPlaylist({"fs", "http"}, OneFile)
    /\ InitDj({"none", "missing", "present"})
    /\ InitFan
    /\ InitBytes
    /\ InitGeo(BOOLEAN, 0..MaxSpare)

Next ==
    \/ LiveNext
    \/ DjNext
    \/ Skip
    \/ ForceReload
    \/ Stop
    \/ DirChange
    \/ Tick
    \/ DistNext
    \/ ListenNext
    \/ CloseNext
    \/ GeoNext
    \/ MgrNext

Spec == Init /\ [][Next]_vars

\* ---- live ingest next to the AutoDJ: the source selector
LiveInit ==
    /\ InitLive(PutRequests)
    /\ InitFeed
    /\ InitBufs
    /\ InitNow
    /\ InitRoute
    /\ InitFetch
    /\ InitCursor(-1)
    /\ InitAnalytics({0})
    /\ InitLoop({TRUE})
    /\ InitLock
    /\ InitWriters({TRUE})
    /\ InitMgr({TRUE})
    /\ InitPlaylist({"fs"}, OneFile)
    /\ InitDj({"present"})
    /\ InitFan
    /\ InitBytes
    /\ InitGeo({FALSE}, {0})

SpecLive == LiveInit /\ [][LiveNext \/ DjNext]_vars

\* ---- the live ingest handlers alone, with every kind of request
IngestInit ==
    /\ InitLive(Requests)
    /\ InitFeed
    /\ InitBufs
    /\ InitNow
    /\ InitRoute
    /\ InitFetch
    /\ InitCursor(-1)
    /\ InitAnalytics({0})
    /\ InitLoop({TRUE})
    /\ InitLock
    /\ InitWriters({TRUE})
    /\ InitMgr({TRUE})
    /\ InitPlaylist({"fs"}, OneFile)
    /\ InitDj({"none"})
    /\ InitFan
    /\ InitBytes
    /\ InitGeo({FALSE}, {0})

SpecIngest == IngestInit /\ [][LiveNext]_vars

\* ---- the fan-out: a producer, the distributor, the listener handlers
FanInit ==
    /\ InitLive(PutRequests)
    /\ InitFeed
    /\ InitBufs
    /\ InitNow
    /\ InitRoute
    /\ InitFetch
    /\ InitCursor(-1)
    /\ InitAnalytics({0})
    /\ InitLoop({TRUE})
    /\ InitLock
    /\ InitWriters({TRUE})
    /\ InitMgr({TRUE})
    /\ InitPlaylist({"fs"}, OneFile)
    /\ InitDj({"none"})
    /\ InitFan
    /\ InitBytes
    /\ InitGeo({FALSE}, {0})

SpecFan == FanInit /\ [][StudioPush \/ DistNext \/ ListenNext]_vars

\* ---- the fan-out with response writers of both kinds
WritersInit ==
    /\ InitLive(PutRequests)
    /\ InitFeed
    /\ InitBufs
    /\ InitNow
    /\ InitRoute
    /\ InitFetch
    /\ InitCursor(-1)
    /\ InitAnalytics({0})
    /\ InitLoop({TRUE})
    /\ InitLock
    /\ InitWriters(BOOLEAN)
    /\ InitMgr({TRUE})
    /\ InitPlaylist({"fs"}, OneFile)
    /\ InitDj({"none"})
    /\ InitFan
    /\ InitBytes
    /\ InitGeo({FALSE}, {0})

SpecWriters == WritersInit /\ [][StudioPush \/ DistNext \/ ListenNext]_vars

\* ---- the fan-out next to the other readers of the listener set
SpecLock == FanInit /\ [][StudioPush \/ DistNext \/ ListenNext \/ ReadersNext]_vars

\* ---- the read loops of the live sessions with their clocks. A Read call
\* returns: the loop is checked for what it does with what its reads give.
GraceInit ==
    /\ InitLive(PutRequests)
    /\ InitFeed
    /\ InitBufs
    /\ InitNow
    /\ InitRoute
    /\ InitFetch
    /\ InitCursor(-1)
    /\ InitAnalytics({0})
    /\ InitLoop(BOOLEAN)
    /\ InitLock
    /\ InitWriters({TRUE})
    /\ InitMgr({TRUE})
    /\ InitPlaylist({"fs"}, OneFile)
    /\ InitDj({"none"})
    /\ InitFan
    /\ InitBytes
    /\ InitGeo({FALSE}, {0})

SpecGrace ==
    /\ GraceInit
    /\ [][\E h \in LiveHandlers : GraceRead(h)]_vars
    /\ \A h \in LiveHandlers : WF_vars(GraceRead(h))

\* ---- the cursor of a snapshot of one to MaxCursorLen tracks, started or not
CursorLists == UNION {[1..n -> Names] : n \in 1..MaxCursorLen}

CursorInit ==
    /\ InitLive(PutRequests)
    /\ InitFeed
    /\ InitBufs
    /\ InitNow
    /\ InitRoute
    /\ InitFetch
    /\ InitAnalytics({0})
    /\ InitLoop({TRUE})
    /\ InitLock
    /\ InitWriters({TRUE})
    /\ InitMgr({TRUE})
    /\ plKind = "http"
    /\ \E l \in CursorLists, i \in -1..(MaxCursorLen - 1) :
         /\ i < Len(l)
         /\ playlist = [tracks |-> l, idx |-> i, last |-> 0]
         /\ InitCursor(i)
    /\ dir = OneFile
    /\ dirMod = 0
    /\ now = 0
    /\ InitDj({"none"})
    /\ InitFan
    /\ InitBytes
    /\ InitGeo({FALSE}, {0})

SpecCursor == CursorInit /\ [][CursorAdvance \/ CursorNextTrack]_vars

\* ---- the analytics task and its stop channel
AnalyticsInit ==
    /\ InitLive(PutRequests)
    /\ InitFeed
    /\ InitBufs
    /\ InitNow
    /\ InitRoute
    /\ InitFetch
    /\ InitCursor(-1)
    /\ InitAnalytics({0, 1})
    /\ InitLoop({TRUE})
    /\ InitLock
    /\ InitWriters({TRUE})
    /\ InitMgr({TRUE})
    /\ InitPlaylist({"fs"}, OneFile)
    /\ InitDj({"none"})
    /\ InitFan
    /\ InitBytes
    /\ InitGeo({FALSE}, {0})

SpecAnalytics == AnalyticsInit /\ [][AnalyticsNext]_vars

\* ---- the fan-out with Studio.Close
CloseStep == StudioPush \/ DistNext \/ ListenNext \/ CloseNext

SpecClose == FanInit /\ [][CloseStep]_vars

\* ---- the AutoDJ and its commands
DjInit ==
    /\ InitLive(PutRequests)
    /\ InitFeed
    /\ InitBufs
    /\ InitNow
    /\ InitRoute
    /\ InitFetch
    /\ InitCursor(-1)
    /\ InitAnalytics({0})
    /\ InitLoop({TRUE})
    /\ InitLock
    /\ InitWriters({TRUE})
    /\ InitMgr({TRUE})
    /\ InitPlaylist({"fs", "http"}, OneFile)
    /\ InitDj({"none", "missing", "present"})
    /\ InitFan
    /\ InitBytes
    /\ InitGeo({FALSE}, {0})

SpecDJ == DjInit /\ [][DjNext \/ Skip \/ ForceReload \/ Stop]_vars

\* ---- the AutoDJ and Stop. The goroutine of Play keeps running as long as it
\* has a step to take: its sleeps (pacing, the 3 s wait for a track) are
\* finite and the scheduler does not starve it.
StopInit ==
    /\ InitLive(PutRequests)
    /\ InitFeed
    /\ InitBufs
    /\ InitNow
    /\ InitRoute
    /\ InitFetch
    /\ InitCursor(-1)
    /\ InitAnalytics({0})
    /\ InitLoop({TRUE})
    /\ InitLock
    /\ InitWriters({TRUE})
    /\ InitMgr({TRUE})
    /\ InitPlaylist({"fs"}, OneFile)
    /\ InitDj({"none", "present"})
    /\ InitFan
    /\ InitBytes
    /\ InitGeo({FALSE}, {0})

SpecStop == StopInit /\ [][DjNext \/ Stop]_vars /\ WF_vars(DjNext)

\* ---- the router over a Manager whose studios come and go
RouteInit ==
    /\ InitLive(PutRequests)
    /\ InitFeed
    /\ InitBufs
    /\ InitNow
    /\ InitRoute
    /\ InitFetch
    /\ InitCursor(-1)
    /\ InitAnalytics({0})
    /\ InitLoop({TRUE})
    /\ InitLock
    /\ InitWriters({TRUE})
    /\ InitMgr(BOOLEAN)
    /\ InitPlaylist({"fs"}, OneFile)
    /\ InitDj({"none"})
    /\ InitFan
    /\ InitBytes
    /\ InitGeo({FALSE}, {0})

SpecRoute ==
    RouteInit /\ [][(\E c \in Calls : RegisterCall(c) \/ RegisterStudio(c))
                      \/ RemoveStudio \/ RouteStudioRequest]_vars

\* ---- the AutoDJ over the HTTP-backed playlist, the clock and the /now endpoint
NowInit ==
    /\ InitLive(PutRequests)
    /\ InitFeed
    /\ InitBufs
    /\ InitNow
    /\ InitRoute
    /\ InitFetch
    /\ InitCursor(-1)
    /\ InitAnalytics({0})
    /\ InitLoop({TRUE})
    /\ InitLock
    /\ InitWriters({TRUE})
    /\ InitMgr({TRUE})
    /\ InitPlaylist({"http"}, OneFile)
    /\ InitDj({"none", "present"})
    /\ InitFan
    /\ InitBytes
    /\ InitGeo({FALSE}, {0})

SpecNow == NowInit /\ [][DjNext \/ Tick \/ HandleNowPlaying]_vars

\* ---- the playlist sources under every sequence of calls
PlaylistInit ==
    /\ InitLive(PutRequests)
    /\ InitFeed
    /\ InitBufs
    /\ InitNow
    /\ InitRoute
    /\ InitFetch
    /\ InitCursor(-1)
    /\ InitAnalytics({0})
    /\ InitLoop({TRUE})
    /\ InitLock
    /\ InitWriters({TRUE})
    /\ InitMgr({TRUE})
    /\ \E d \in Dirs : InitPlaylist({"fs", "http"}, d)
    /\ InitDj({"none"})
    /\ InitFan
    /\ InitBytes
    /\ InitGeo({FALSE}, {0})

SpecPlaylist == PlaylistInit /\ [][PlNext]_vars

\* ---- the geo resolver with concurrent Enrich calls
GeoInit ==
    /\ InitLive(PutRequests)
    /\ InitFeed
    /\ InitBufs
    /\ InitNow
    /\ InitRoute
    /\ InitFetch
    /\ InitCursor(-1)
    /\ InitAnalytics({0})
    /\ InitLoop({TRUE})
    /\ InitLock
    /\ InitWriters({TRUE})
    /\ InitMgr({TRUE})
    /\ InitPlaylist({"fs"}, OneFile)
    /\ InitDj({"none"})
    /\ InitFan
    /\ InitBytes
    /\ InitGeo(BOOLEAN, 0..MaxSpare)

SpecGeo == GeoInit /\ [][GeoNext]_vars

\* ---- the manager and its studios
MgrInit ==
    /\ InitLive(PutRequests)
    /\ InitFeed
    /\ InitBufs
    /\ InitNow
    /\ InitRoute
    /\ InitFetch
    /\ InitCursor(-1)
    /\ InitAnalytics({0})
    /\ InitLoop({TRUE})
    /\ InitLock
    /\ InitWriters({TRUE})
    /\ InitMgr(BOOLEAN)
    /\ InitPlaylist({"fs"}, OneFile)
    /\ InitDj({"none"})
    /\ InitFan
    /\ InitBytes
    /\ InitGeo({FALSE}, {0})

SpecManager == MgrInit /\ [][MgrNext]_vars

\* ---- the way of a chunk: one live source and the AutoDJ produce, the
\* distributor fans out, one listener receives
ChunksInit ==
    /\ InitLive({Request("PUT", "valid", 1)})
    /\ InitFeed
    /\ InitBufs
    /\ InitNow
    /\ InitRoute
    /\ InitFetch
    /\ InitCursor(-1)
    /\ InitAnalytics({0})
    /\ InitLoop({TRUE})
    /\ InitLock
    /\ InitWriters({TRUE})
    /\ InitMgr({TRUE})
    /\ InitPlaylist({"fs"}, OneFile)
    /\ InitDj({"none"})
    /\ InitFan
    /\ InitBytes
    /\ InitGeo({FALSE}, {0})

\* the steps of Play with no fallback file configured
DjPlaySteps == DjBegin \/ DjSelect \/ DjRead \/ DjCbCheck \/ DjCbPush \/ DjAdvance

SpecChunks == ChunksInit /\ [][LiveSteps(1) \/ DjPlaySteps \/ DistNext \/ ListenSteps(1)]_vars

\* ---- the producers of the feed next to Studio.Close: the AutoDJ and one
\* live session publish, nothing is dequeued
SpecProducers == ChunksInit /\ [][LiveSteps(1) \/ DjPlaySteps \/ CloseNext]_vars

\* ---- the AutoDJ over the HTTP-backed playlist with Skip, ForceReload and
\* the /now endpoint
RoundInit ==
    /\ InitLive(PutRequests)
    /\ InitFeed
    /\ InitBufs
    /\ InitNow
    /\ InitRoute
    /\ InitFetch
    /\ InitCursor(-1)
    /\ InitAnalytics({0})
    /\ InitLoop({TRUE})
    /\ InitLock
    /\ InitWriters({TRUE})
    /\ InitMgr({TRUE})
    /\ InitPlaylist({"http"}, OneFile)
    /\ InitDj({"none"})
    /\ InitFan
    /\ InitBytes
    /\ InitGeo({FALSE}, {0})

SpecRound == RoundInit /\ [][DjPlaySteps \/ Skip \/ ForceReload \/ HandleNowPlaying]_vars

----------------------------------------------------------------------------
(* Properties *)

\* C1: at most one /live handler is between "mark active" and teardown at the
\* same time; a concurrent valid request never gets past the 409 check.
AtMostOneLiveSession ==
    Cardinality({h \in LiveHandlers : lpc[h] \in {"read", "close"}}) <= 1

\* C2: while liveActive is true no chunk produced by the AutoDJ is enqueued to
\* the feed, whatever the interleaving of the callback with the live handler.
NoAutoChunkWhileLive ==
    [][(liveActive /\ Len(feed') > Len(feed)) => feed'[Len(feed')].src # "auto"]_vars

\* a live connection that was answered 200 and whose teardown has not begun
LiveInProgress(h) == lresp[h] = 200 /\ lpc[h] \in {"mark", "read", "close"}

\* C3: is_live reads true at every moment between the 200 of an accepted live
\* connection and its teardown, and false when no accepted connection is in
\* progress.
IsLiveTracksSessions ==
    liveActive <=> (\E h \in LiveHandlers : LiveInProgress(h))

\* the ids of the chunks sent to the listener with success: those its handler
\* received, then those waiting in its channel
Offered(l) == [i \in 1..Len(got[l]) |-> got[l][i].id] \o [i \in 1..Len(ch[l]) |-> ch[l][i].id]

\* the distributor is between two chunks and the listener is in its set
Settled(l) == dpc = "recv" /\ l \in streamListeners

\* C4 (as stated): a listener for which no chunk was dropped receives exactly
\* the chunks dequeued after it was added to the set, in order, without gaps
\* or duplicates: the i-th chunk is the i-th dequeued after the addition.
ListenerGetsOnlyLaterChunks ==
    \A l \in Listeners :
        ~everDropped[l] =>
            /\ \A i \in 1..Len(Offered(l)) : Offered(l)[i] = joinedAt[l] + i
            /\ Settled(l) => Len(Offered(l)) = ddata.id - joinedAt[l]

\* C4 (amended): a listener for which no chunk was dropped receives a run of
\* the dequeue order without gaps, duplicates or reordering, which starts with
\* the chunk under distribution when it was added or with the next one, and
\* which reaches the last chunk distributed.
ListenerGetsContiguousRun ==
    \A l \in Listeners :
        ~everDropped[l] =>
            /\ \A i \in 2..Len(Offered(l)) : Offered(l)[i] = Offered(l)[i - 1] + 1
            /\ Offered(l) # <<>> => Offered(l)[1] \in {joinedAt[l], joinedAt[l] + 1}
            /\ Settled(l) =>
                 IF Offered(l) = <<>> THEN ddata.id = joinedAt[l]
                 ELSE Offered(l)[Len(Offered(l))] = ddata.id

\* a listener that was never dropped received two chunks or more
C4Witness ==
    \E l \in Listeners : ~everDropped[l] /\ Len(got[l]) >= 2 /\ joinedAt[l] >= 1

\* C5: a listener is evicted only when droppedInARow exceeds the drop limit,
\* that is after more than DropLimit chunks in a row, each one after its last
\* successful send, have failed to be sent to it.
EvictionOnlyAfterDropLimit ==
    \A l \in Listeners :
        evictedAt[l] # 0 =>
            /\ droppedInARow[l] > DropLimit
            /\ Offered(l) # <<>>
            /\ evictedAt[l] - Offered(l)[Len(Offered(l))] > DropLimit

\* a listener was evicted
C5Witness == \E l \in Listeners : evictedAt[l] # 0 /\ l \notin streamListeners

\* C6: the handler of an evicted listener terminates normally, and when it
\* has ended the listener is out of the distributor's set and out of the
\* registry.
EvictedHandlerEndsNormally ==
    \A l \in Listeners :
        (evictedAt[l] # 0 /\ hpc[l] \in {"done", "panicked"}) =>
            /\ hpc[l] = "done"
            /\ l \notin streamListeners
            /\ l \notin listenersStore

\* C7: after Studio.Close the distributor exits and every listener handler
\* exits: once Close has returned and nothing more can happen, the
\* distributor has stopped and no handler is left in its receive loop.
ClosedStudioWindsDown ==
    (cpc = "done" /\ ~ENABLED CloseStep) =>
        /\ dpc = "stopped"
        /\ \A l \in Listeners : hpc[l] # "loop"

\* C8: a Skip ends only the track that was streaming when it was issued: a
\* track is never ended by a Skip issued during an earlier track or while no
\* file was streaming.
SkipEndsOnlyItsTrack ==
    lastEnd.kind = "skipped" => lastEnd.at = "playing"

\* C9: when the enrichment of a listener created with raw IP x is over, on
\* every path, RemoteIP is nil and IPHash is hex(sha256(salt || x)), also when
\* several listeners are enriched at the same time.
RawIpErased ==
    \A l \in Listeners :
        (gpc[l] = "done" /\ origIP[l] # <<>>) =>
            /\ remoteIP[l] = <<>>
            /\ ipHash[l] = HashHex(Salt \o origIP[l])

\* C10 (as stated): the cursor is -1 if and only if the snapshot is empty, and
\* otherwise 0 <= cursor < length.
CursorMinusOneIffEmpty ==
    LET n == Len(playlist.tracks) IN
    /\ playlist.idx = -1 <=> n = 0
    /\ n > 0 => (0 <= playlist.idx /\ playlist.idx < n)

\* C10 (amended): the cursor is -1 when the snapshot is empty, and otherwise
\* -1 <= cursor < length, -1 meaning that no track was selected yet.
CursorInRange ==
    LET n == Len(playlist.tracks) IN
    /\ n = 0 => playlist.idx = -1
    /\ n > 0 => (-1 <= playlist.idx /\ playlist.idx < n)

\* the cursor is on the last of several tracks, which current() returns
C10Witness ==
    /\ Len(playlist.tracks) >= 2
    /\ playlist.idx = Len(playlist.tracks) - 1
    /\ CurrentTrack(playlist) = playlist.tracks[Len(playlist.tracks)]

\* the handler of the listener has exited, by returning or by a panic
HandlerExited(l) == hpc[l] \in {"done", "panicked"}

\* C11: DisconnectedAt of a listener is stored at most once, only by the
\* handler that created the listener and only on its way out (not by the
\* distributor, not on eviction), exactly once when the handler has exited;
\* after the handler has exited the listener is in neither the distributor's
\* set nor the registry.
ListenerExitIsClean ==
    \A l \in Listeners :
        /\ disconnectedAt[l] \in {<<>>, <<"handler">>}
        /\ disconnectedAt[l] # <<>> => hpc[l] \in {"delete", "unstore", "close", "done", "panicked"}
        /\ HandlerExited(l) =>
              /\ disconnectedAt[l] = <<"handler">>
              /\ l \notin streamListeners
              /\ l \notin listenersStore

\* the handler of an evicted listener has exited, and so has the handler of a
\* listener that was never evicted
C11Witness ==
    /\ \E l \in Listeners : HandlerExited(l) /\ evictedAt[l] # 0
    /\ \E l \in Listeners : HandlerExited(l) /\ evictedAt[l] = 0

\* the chunks that exist: in the feed, with the distributor, in the listener
\* channels, and those the handlers have received to write them
ChunksInFlight ==
    {feed[i] : i \in 1..Len(feed)} \cup {ddata}
      \cup UNION {{ch[l][i] : i \in 1..Len(ch[l])} : l \in Listeners}
      \cup UNION {{got[l][i] : i \in 1..Len(got[l])} : l \in Listeners}

AutoPushStep == djpc = "cbpush" /\ djpc' = "select"
LivePushStep == \E h \in LiveHandlers : lgot'[h] > lgot[h]

\* the producer that is about to call Studio.push on the open feed can take
\* its step
PushIsEnabled ==
    (djpc = "cbpush" /\ ~feedClosed) => ENABLED DjCbPush

\* C13: a publish to the Feed Queue does not block: with fewer chunks than the
\* capacity in the queue the chunk is appended at the tail, with a full queue
\* the chunk is dropped and the queue is unchanged; the queue never holds more
\* chunks than its capacity.
FeedPushNeverBlocks ==
    /\ [](Len(feed) <= FeedCap /\ PushIsEnabled)
    /\ [][(AutoPushStep \/ LivePushStep) =>
            IF Len(feed) < FeedCap
              THEN /\ Len(feed') = Len(feed) + 1
                   /\ SubSeq(feed', 1, Len(feed)) = feed
                   /\ feed'[Len(feed')].src = (IF AutoPushStep THEN "auto" ELSE "live")
              ELSE feed' = feed]_vars

\* the feed is full of AutoDJ chunks, none was dequeued, and the live source
\* has published a chunk, which was dropped
C13Witness ==
    /\ Len(feed) = FeedCap
    /\ \A i \in 1..Len(feed) : feed[i].src = "auto"
    /\ ddata.id = 0
    /\ lgot[1] = 1

\* the live session that was on when the listener joined is still reading
JoinedLiveSessionOn(l) == joinedLive[l] # 0 /\ lpc[joinedLive[l]] = "read"

\* C14: a listener added to the set while a live session was on (liveActive
\* true) gets, as long as that session has not ended, no AutoDJ chunk that
\* was enqueued while liveActive was true.
NewListenerHearsNoAutoDJ ==
    \A l \in Listeners :
        JoinedLiveSessionOn(l) =>
            \A c \in {ch[l][i] : i \in 1..Len(ch[l])} \cup {got[l][i] : i \in 1..Len(got[l])} :
                ~(c.src = "auto" /\ c.live)

\* the Studios that are registered now
Registered == {studios[id] : id \in {i \in StudioIds : studios[i] # 0}}

\* C15: at the moment Shutdown returns, no registered studio has a running
\* distributor, AutoDJ or snapshot task.
ShutdownStopsEveryStudio ==
    [][(spc = "wait" /\ spc' = "returned") =>
          \A o \in Registered : objs'[o].tasks = {}]_vars

\* the Studios made for an id
StudiosOf(id) == {k \in 1..Len(objs) : objs[k].id = id}

\* C16: as long as an id was never removed, the RegisterStudio calls for it,
\* in any interleaving, make one Studio (with one distributor, and one AutoDJ
\* when there is a factory), and every call returns that Studio; a call
\* leaves the Studios of the other ids as they were.
RegisterIsIdempotent ==
    /\ [](\A id \in StudioIds :
            (\A i \in 1..Len(removed) : removed[i] # id) =>
                /\ Cardinality(StudiosOf(id)) <= 1
                /\ \A c \in Calls :
                     (rpc[c] = "returned" /\ rarg[c] = id) =>
                         /\ StudiosOf(id) = {rret[c]}
                         /\ studios[id] = rret[c]
                         /\ "distribute" \in objs[rret[c]].tasks
                         /\ "autodj" \in objs[rret[c]].tasks <=> autoDJFactory)
    /\ [][\A c \in Calls :
            (rpc[c] = "called" /\ rpc'[c] = "returned") =>
                /\ \A id \in StudioIds \ {rarg[c]} : studios'[id] = studios[id]
                /\ SubSeq(objs', 1, Len(objs)) = objs]_vars

\* two calls for one id and a call for another id have returned
C16Witness ==
    \E c1, c2, c3 \in Calls :
        /\ c1 # c2
        /\ rpc[c1] = "returned" /\ rpc[c2] = "returned" /\ rpc[c3] = "returned"
        /\ rarg[c1] = rarg[c2]
        /\ rarg[c3] # rarg[c1]
        /\ removed = <<>>

\* C17: a /live request is answered 405 exactly when its method is not PUT,
\* POST or SOURCE, and 401 with WWW-Authenticate: Basic realm="source" exactly
\* when the method is one of them and the credentials are missing or wrong;
\* 409 is answered only when liveActive is true; a handler that has rejected
\* its request has ended, and the step in which it rejects leaves liveActive,
\* the live metadata, the stored reader and the Feed Queue unchanged.
RejectedLiveLeavesStudioAlone ==
    /\ [](\A h \in LiveHandlers :
            lin[h] # NoIn =>
                /\ lresp[h] = 405 <=> lin[h].m \notin {"PUT", "POST", "SOURCE"}
                /\ lresp[h] = 401 <=> (lin[h].m \in {"PUT", "POST", "SOURCE"} /\ lin[h].a # "valid")
                /\ lauth[h] <=> lresp[h] = 401
                /\ lresp[h] \in {405, 401, 409} =>
                      (lpc[h] = "done" /\ lgot[h] = 0 /\ liveMeta # h /\ liveIngest # h))
    /\ [][\A h \in LiveHandlers :
            (lresp[h] = 0 /\ lresp'[h] \in {405, 401, 409}) =>
                /\ UNCHANGED <<liveActive, liveMeta, liveIngest, feed>>
                /\ lresp'[h] = 409 => liveActive]_vars

\* a request was answered 409 while a live session is reading and has
\* published a chunk
C17Witness ==
    \E h1, h2 \in LiveHandlers :
        lpc[h1] = "read" /\ lgot[h1] > 0 /\ lresp[h2] = 409

\* the fetch failed: a network error, a status outside 2xx, or a body that is
\* not well-formed JSON
FetchFailed(ans) == ans.err \/ ans.status \notin 200..299 \/ ans.bad

\* C18: for the HTTP-backed playlist in any state it can reach, an ensure()
\* whose fetch fails leaves the track list and the cursor as they were.
FailedFetchKeepsSnapshot ==
    plKind = "http" =>
        \A ans \in Answers :
            FetchFailed(ans) =>
                /\ EnsureHttp(playlist, ans, now).tracks = playlist.tracks
                /\ EnsureHttp(playlist, ans, now).idx = playlist.idx

\* the HTTP-backed playlist holds several tracks, the cursor is past the
\* first one, and the snapshot is stale, so that ensure() fetches
C18Witness ==
    /\ plKind = "http"
    /\ Len(playlist.tracks) >= 2
    /\ playlist.idx >= 1
    /\ IsStale(playlist, now)

\* the names of a set in ascending order
RECURSIVE Ascending(_)
Ascending(S) ==
    IF S = {} THEN <<>>
    ELSE LET m == CHOOSE x \in S : \A y \in S : x <= y
         IN <<m>> \o Ascending(S \ {m})

\* the audio files of a directory: its regular files whose lower-cased name
\* ends with .mp3, in order of name
Mp3Files(d) == Ascending({n \in Names : d[n] = "mp3"})

\* C19: when the filesystem playlist's ensure() finds the snapshot empty or
\* the directory's modification time advanced (and reads the directory
\* without error), the snapshot it leaves is exactly the sorted list of the
\* directory's audio files, whatever the directory holds.
RefreshGivesTheDirectory ==
    (plKind = "fs" /\ (Len(playlist.tracks) = 0 \/ dirMod > playlist.last)) =>
        EnsureFs(playlist, dir, dirMod, FALSE, FALSE).tracks = Mp3Files(dir)

\* C20: over successive /now queries that report the same current track,
\* the reported elapsed time never goes down, whatever the length of the
\* playlist.
ElapsedNeverGoesBack ==
    [][(nowResp.cur # 0 /\ nowResp'.cur = nowResp.cur)
          => nowResp'.elapsed >= nowResp.elapsed]_vars

\* the handler the spec names for an action word
HandlerOf ==
    [w \in Actions |->
        CASE w = "live" -> "HandleLiveIngest"
          [] w = "listen" -> "HandleListen"
          [] w = "status" -> "HandleStatus"
          [] w = "snapshot" -> "HandleSnapshot"
          [] w = "skip" -> "HandleSkip"
          [] w = "now" -> "HandleNowPlaying"]

\* C21: a request for /studio/{id}/{action} with fewer than two segments is
\* answered 400; otherwise one for an id with no studio registered is
\* answered 404; otherwise one for a word that is no action is answered 404;
\* otherwise the handler of the action is called on the studio registered
\* under the id, and no studio and no registration changes.
RoutingIsExact ==
    [][route'.n # route.n =>
         LET parts == route'.path
             reg == IF Len(parts) >= 2 /\ parts[1].id \in StudioIds
                      THEN studios[parts[1].id] ELSE 0
         IN /\ route'.status = (IF Len(parts) < 2 THEN 400
                                ELSE IF reg = 0 THEN 404
                                ELSE IF parts[2].id # 0 \/ parts[2].w \notin Actions THEN 404
                                ELSE 0)
            /\ route'.status # 0 => (route'.obj = 0 /\ route'.handler = "none")
            /\ route'.status = 0 =>
                  (route'.obj = reg /\ route'.handler = HandlerOf[parts[2].w])
            /\ studios' = studios
            /\ objs' = objs]_vars

\* with two studios registered, the router has called the skip handler of
\* the second one
C21Witness ==
    /\ route.status = 0
    /\ route.handler = "HandleSkip"
    /\ route.obj # 0
    /\ objs[route.obj].id = 2
    /\ Cardinality({i \in StudioIds : studios[i] # 0}) = 2

\* C22: a /listen request whose response writer cannot flush is answered
\* with status 500, and no listener is added to the registry or to the
\* distributor's set for it.
UnflushableListenIs500 ==
    \A l \in Listeners :
        hpc[l] = "refused" =>
            /\ hstatus[l] = 500
            /\ l \notin listenersStore
            /\ l \notin streamListeners

\* Stop() has been called and its command was accepted by ctrl
StopRequested == \E i \in 1..Len(ctrl) : ctrl[i].cmd = "stop"

\* C23: once Stop() has been called, Play eventually returns, whatever it
\* was doing: streaming a track, streaming the fallback file, or waiting for
\* a track.
StopEndsPlay == StopRequested ~> (djpc = "returned")

\* the distributor, inside its range loop, can take its next step
DistCanStep == dpc = "iter" => ENABLED (DistSend \/ DistRUnlock)

\* how often the chunk with the given id was put into the listener's channel
TimesOffered(l, id) == Cardinality({i \in 1..Len(Offered(l)) : Offered(l)[i] = id})

\* C24: the distributor never waits for a listener. Inside the range loop it
\* can always go on, whatever the channels hold, and it does not fail; when
\* the loop for a chunk ends, every listener of the set that was there before
\* the chunk was dequeued has had its one attempt: the chunk is in its
\* channel once, or its own channel was full and the drop was counted. A
\* full channel of one listener changes nothing for the others.
DistributorNeverWaits ==
    /\ [](DistCanStep /\ dpc # "panicked")
    /\ [][(dpc = "iter" /\ dpc' = "recv") =>
            \A l \in streamListeners :
                joinedAt[l] < ddata.id =>
                    \/ TimesOffered(l, ddata.id) = 1 /\ droppedInARow[l] = 0
                    \/ TimesOffered(l, ddata.id) = 0 /\ droppedInARow[l] > 0]_vars

\* the loop for a chunk ends with one listener that was dropped at this
\* chunk, its channel full, and another that was offered the chunk
C24Witness ==
    /\ dpc = "iter"
    /\ dleft = {}
    /\ \E slow \in streamListeners, l \in streamListeners :
         /\ slow # l
         /\ joinedAt[slow] < ddata.id
         /\ joinedAt[l] < ddata.id
         /\ Len(ch[slow]) = ChanCap
         /\ droppedInARow[slow] > 0
         /\ TimesOffered(slow, ddata.id) = 0
         /\ TimesOffered(l, ddata.id) = 1

\* every holder of the read lock can take its next step: it waits neither for
\* the lock nor for anything else
HolderCanStep ==
    /\ rlocks["dist"] > 0 => ENABLED (DistSend \/ DistRUnlock)
    /\ rlocks["status"] > 0 => ENABLED StatusRUnlock
    /\ rlocks["collect"] > 0 => ENABLED CollectRUnlock

\* C25: the distributor holds the read lock of the listener set exactly while
\* it iterates, once; it deletes an evicted listener only after it released
\* the read lock, with nobody reading the set, and takes the read lock again
\* before the iteration goes on; at the end of the iteration it releases the
\* one read lock it holds. No holder of the lock ever waits, whatever the
\* listener handlers, the status handler and the collector do.
LockUpgradeIsClean ==
    /\ [](/\ rlocks["dist"] \in {0, 1}
          /\ (rlocks["dist"] = 1) <=> (dpc = "iter")
          /\ HolderCanStep)
    /\ [][/\ streamListeners' # streamListeners => ~ReadLocked
          /\ (dpc = "remove" /\ dpc' = "relock") => (rlocks["dist"] = 0 /\ ~ReadLocked)
          /\ (dpc = "iter" /\ dpc' = "recv") => (rlocks["dist"] = 1 /\ rlocks'["dist"] = 0)]_vars

\* the distributor has deleted an evicted listener and is about to take the
\* read lock again, while the status handler reads the set and a new listener
\* handler waits for the write lock
C25Witness ==
    /\ dpc = "relock"
    /\ rlocks["dist"] = 0
    /\ rlocks["status"] = 1
    /\ \E l \in Listeners : hpc[l] = "added"
    /\ \E l \in Listeners : evictedAt[l] # 0 /\ l \notin streamListeners

\* the total length of the chunks the listener's channel accepted
AcceptedBytes(l) == Len(Offered(l))

\* C26: ByteSent of a listener is the total length of the chunks that were
\* sent into its channel; a dropped chunk does not count.
ByteSentCountsAccepted ==
    \A l \in Listeners : byteSent[l] = AcceptedBytes(l)

\* a live session is on: its handler has marked the studio live and has not
\* torn down yet
InSession(h) == lpc[h] \in {"read", "close"}

\* C27: the teardown of a live session closes the session's reader, clears
\* liveActive and clears the live metadata; with no live session on, a chunk
\* the AutoDJ hands to its callback goes on to the push.
LiveTeardownRestoresAutoDJ ==
    [][/\ \A h \in LiveHandlers :
            (lpc[h] = "close" /\ lpc'[h] = "clearmeta") => (lclosed'[h] /\ ~liveActive')
       /\ \A h \in LiveHandlers :
            (lpc[h] = "clearmeta" /\ lpc'[h] = "done") => liveMeta' = 0
       /\ (djpc = "cbcheck" /\ djpc' # "cbcheck" /\ \A h \in LiveHandlers : ~InSession(h))
            => djpc' = "cbpush"]_vars

StartsTrack == djpc = "top" /\ djpc' \in {"select", "advance"} /\ ~inFallback'

\* C29: the track Play starts is the one under the cursor, and as long as the
\* snapshot holds the same tracks the position started after position i
\* (whose stream ended by EOF, by a skip or by an open or read error) is
\* (i + 1) mod n; /now answers with the track started last.
RoundRobinOrder ==
    [][/\ StartsTrack =>
            /\ current' = playlist'.tracks[playlist'.idx + 1]
            /\ (lastPos # -1 /\ playlist'.tracks = playlist.tracks) =>
                   /\ lastEnd.kind \in {"eof", "skipped", "open", "read"}
                   /\ playlist'.idx = (lastPos + 1) % Len(playlist.tracks)
       /\ nowResp' # nowResp => nowResp'.cur = current]_vars

\* with the tracks <<1, 2>> the first was ended by a skip issued while it was
\* streaming, the second is streaming and /now has answered with it
C29Witness ==
    /\ playlist.tracks = <<1, 2>>
    /\ lastEnd = End("skipped", "playing")
    /\ lastPos = 1
    /\ djpc = "select"
    /\ current = 2
    /\ nowResp.cur = 2

\* a step in which a streamFile call returns
StreamEnds ==
    /\ djpc \in {"top", "select", "read"}
    /\ djpc' \in {"advance", "fbend", "returned"}
    /\ ~(djpc = "top" /\ djpc' = "returned")

\* C30: track_ended is sent exactly by the streamFile calls that read their
\* file to EOF, not by those that end by a skip, a stop, a cancellation or an
\* open or read error; the event before a track_ended is the track_started
\* of the same file.
EndedOnlyAtEof ==
    /\ [](/\ Len(playEvents) <= 2
          /\ (Len(playEvents) >= 1) => (playEvents[1].type = "track_started")
          /\ (Len(playEvents) = 2) =>
                (playEvents[2] = PlayEvent("track_ended", playEvents[1].file)))
    /\ [][/\ StreamEnds =>
               (/\ lastEnd'.kind \in {"eof", "skipped", "canceled", "open", "read"}
                /\ (lastEnd'.kind = "eof") <=>
                      (/\ Len(playEvents') = 2
                       /\ playEvents'[2].type = "track_ended"
                       /\ playEvents'[2].file = current
                       /\ djpc = "read" /\ filePos = FileChunks)
                /\ (lastEnd'.kind # "eof") =>
                      (\A i \in 1..Len(playEvents') : playEvents'[i].type # "track_ended"))
          /\ (playEvents' # playEvents /\ ~StreamEnds) =>
                 (djpc = "top" /\ playEvents' = <<PlayEvent("track_started", current')>>)]_vars

\* the second track of the playlist was read to EOF: the events since its
\* start are its track_started and its track_ended
C30Witness ==
    /\ lastEnd.kind = "eof"
    /\ djpc = "advance"
    /\ lastPos = 1
    /\ filePos = FileChunks
    /\ playEvents = <<PlayEvent("track_started", current), PlayEvent("track_ended", current)>>

\* C31: the buckets of a batch are those whose window ended at or before one
\* second before the tick; none of them was in an earlier batch, and none is
\* left in the bucket state, whether the POST succeeds or fails.
DrainedOnceOnly ==
    [][aticks' # aticks =>
         /\ \A b \in batch' :
               /\ b.start + Dur(b.kind) <= alast' - Second
               /\ KeyOf(b) \notin drainedKeys
               /\ \A h \in bk' : KeyOf(h) # KeyOf(b)
         /\ \A h \in bk' : h.start + Dur(h.kind) > alast' - Second
         /\ posted' \in {"ok", "failed"}]_vars

\* a batch with a drained bucket whose POST failed, after an earlier batch
\* that held another bucket
C31Witness ==
    /\ batch # {}
    /\ posted = "failed"
    /\ drainedKeys \ {KeyOf(b) : b \in batch} # {}

\* the bucket of the given key among B, or a new one
BucketAt(B, k) ==
    IF \E b \in B : KeyOf(b) = k THEN CHOOSE b \in B : KeyOf(b) = k
    ELSE NewBucket(k.kind, k.start)

\* C32: at a tick only the bucket of each interval that starts at the
\* truncated time of the tick is updated; every other bucket that is still
\* held afterwards is as it was.
OnlyCurrentBucketUpdated ==
    [][aticks' # aticks =>
         LET cur == {BucketKey(k, Trunc(alast', Dur(k))) : k \in Intervals} IN
         /\ \A k \in cur :
               \A b \in bk' \cup batch' :
                  KeyOf(b) = k =>
                     /\ b.peak >= BucketAt(bk, k).peak
                     /\ b.countries >= BucketAt(bk, k).countries
                     /\ b.minutes >= BucketAt(bk, k).minutes
         /\ \A b \in bk' : KeyOf(b) \notin cur => b \in bk]_vars

\* C40: the stop channel is closed at most once: after the caller has closed
\* it the task returns without closing it again.
StopClosedOnce == apc # "panicked"

\* C33: with no forceReload in between, two GETs of the HTTP-backed playlist
\* are at least TTL apart, whatever the earlier one returned.
GetsAreSpaced == Len(getTimes) = 2 => getTimes[2] - getTimes[1] >= TTL

\* C34: on a snapshot of n >= 1 tracks each advance() moves the cursor to the
\* next position modulo n, from -1 to 0; n calls from a started cursor come
\* back to where they began and pass every position once; nextTrack()
\* returns the track at (cursor + 1) mod n, the first one for the cursor -1,
\* and moves nothing.
CursorWraps ==
    /\ [](LET n == Len(playlist.tracks) IN
          /\ \A i \in 2..Len(walk) :
                walk[i] = (IF walk[i - 1] < 0 THEN 0 ELSE (walk[i - 1] + 1) % n)
          /\ (walk[1] >= 0 /\ Len(walk) = n + 1) =>
                (/\ walk[n + 1] = walk[1]
                 /\ {walk[i] : i \in 2..(n + 1)} = 0..(n - 1))
          /\ (peeked # NoPeek) =>
                (peeked.track = playlist.tracks[((peeked.at + 1) % n) + 1]))
    /\ [][peeked' # peeked => (playlist' = playlist /\ peeked'.at = playlist.idx)]_vars

\* three advance() calls on three tracks from the last position have come
\* back to it, and nextTrack() has returned the first track from there
C34Witness ==
    /\ Len(playlist.tracks) = 3
    /\ walk = <<2, 0, 1, 2>>
    /\ peeked = [at |-> 2, track |-> playlist.tracks[1]]

\* C35: a listener's channel is closed at most once: the close of the
\* handler's exit finds the channel open.
ChannelClosedOnce ==
    [][\A l \in Listeners : (hpc[l] = "close" /\ hpc'[l] # "close") => ~chClosed[l]]_vars

\* C37: the distributor never sends on a closed channel: a channel closed by
\* its handler belongs to a listener that is out of the set, the listeners
\* still to be visited are in the set with their channels open, an evicted
\* listener is not visited again, and no send finds its channel closed.
NoSendOnClosedChannel ==
    /\ [](/\ \A l \in Listeners :
                (chClosed[l] /\ evictedAt[l] = 0) => l \notin streamListeners
          /\ dpc \in {"iter", "relock"} =>
                \A l \in dleft : l \in streamListeners /\ ~chClosed[l]
          /\ dpc # "panicked")
    /\ [][dpc = "iter" => dpc' # "panicked"]_vars

\* while the distributor has released its read lock for an eviction, the
\* handler of another listener has left the set and closed its channel
C37Witness ==
    /\ dpc = "relock"
    /\ \E l \in Listeners :
          /\ l # dcur
          /\ evictedAt[l] = 0
          /\ hpc[l] = "done"
          /\ chClosed[l]

\* C36: no producer publishes to a closed feed: once Studio.Close has closed
\* s.feed, neither the callback of the AutoDJ nor the read loop of a live
\* handler performs a send on it (a send on a closed channel panics).
NoPushOnClosedFeed ==
    /\ djpc # "panicked"
    /\ \A h \in LiveHandlers : lpc[h] # "panicked"

\* C38: live metadata is present only while a live session is in progress:
\* whenever no /live handler is between its acceptance (the checks of method,
\* credentials and liveActive passed) and the end of its teardown, also
\* after a request that ended with an unsupported or failed hijack,
\* LiveMeta() is nil.
LiveMetaOnlyWhileLive ==
    (\A h \in LiveHandlers : lpc[h] \in {"idle", "check", "done"}) => liveMeta = 0

\* C39: every listener in the distributor's set is in the registry, in every
\* state, so the count that the status endpoint reads under the read lock,
\* len(s.streamListeners), never exceeds the number of listeners in the
\* registry.
RegisteredBeforeListening ==
    /\ streamListeners \subseteq listenersStore
    /\ Cardinality(streamListeners) <= Cardinality(listenersStore)

\* the status endpoint reads the count while one listener, evicted, is in the
\* registry only and another is in both
C39Witness ==
    /\ rlocks["status"] > 0
    /\ \E l, m \in Listeners :
         /\ evictedAt[l] # 0
         /\ l \in listenersStore \ streamListeners
         /\ m \in streamListeners

====
